---- MODULE Spec2Model ----
(***************************************************************************)
(* Model of src/dom/dom.js (p5.js DOM addon).                              *)
(*                                                                         *)
(* Cue scheduler of p5.MediaElement: addCue, removeCue, clearCues and the  *)
(* private _onTimeUpdate handler bound to elt.ontimeupdate (Spec).         *)
(* Registry of handles (_elements), creation calls, p5.Element remove()    *)
(* and removeElements() (SpecDom).                                         *)
(* _wrapElement with select(), selectAll(), createSelect(), createRadio()  *)
(* (SpecWrap).                                                             *)
(* autoplay() and its failure watchdog on one media handle (SpecAutoplay,  *)
(* SpecAutoplayFair); speed(), play() and the metadata listener on one     *)
(* media handle (SpecPlayback).                                            *)
(* option() and selected() of the handle made by createSelect             *)
(* (SpecSelect); option(), selected() and value() of the handles made by   *)
(* createRadio (SpecRadio); p5.File._load and its FileReader (SpecFile);    *)
(* createCapture and the getUserMedia polyfill (SpecCapture); cues on a    *)
(* media handle that is removed (SpecCueRemove).                           *)
(* select() on a radio container that createRadio made (SpecRewrap) and on *)
(* the node of any created handle (SpecCreateWrap); loop() and noLoop()    *)
(* (SpecLoop); the src property of a media handle (SpecSrc); cue callbacks *)
(* that call removeCue during a time update (SpecReentrant).               *)
(*                                                                         *)
(* Times are counted in tenths of a second, so 0.5 s is 5 and 2.6 s is 26. *)
(***************************************************************************)
EXTENDS Integers, Sequences, FiniteSets

\* ----------------------------------------------------------------- bounds
\* addCue is called at most MaxCueID times on the handle.
MaxCueID == 3

\* Creation calls made on the p5 instance, at most.
MaxHandles == 2

\* Autoplay watchdogs scheduled on the media handle, at most.
MaxWatchdogs == 2

\* OPTION elements created in the SELECT of the select handle, at most.
MaxOptions == 2

\* Radio inputs created on the page, at most.
MaxRadioInputs == 2

\* Files passed to p5.File._load, at most.
MaxFiles == 2

\* Handles made by select() on a radio container, at most.
MaxWraps == 2

\* Promises of elt.play() that are pending at the same time, at most.
MaxPlays == 2

\* Playback positions reported by the host, in tenths of a second.
Positions == {0, 3, 6, 11, 12, 26}
\* (time, callback, value) arguments of the addCue calls; "undefined" is the
\* optional value left out.  addCue and _onTimeUpdate never inspect the
\* callback or the value, so the two are varied together with the time.
AddCueArgs == {<<0, "f", "undefined">>, <<5, "f", "undefined">>,
               <<10, "g", "v">>, <<25, "f", "v">>}

\* Values of the observer forwardFrom that are not counter values.
NotStarted == 0 - 1
Backward == 0 - 2

VARIABLES
  _cues,          \* this._cues: array of Cue
  _cueIDCounter,  \* this._cueIDCounter
  _prevTime,      \* this._prevTime
  ontimeupdate,   \* this.elt.ontimeupdate: "null" or "_onTimeUpdate"
  currentTime,    \* this.elt.currentTime
  calls,          \* callback invocations made by the last operation, in order
  returned,       \* ids returned by addCue so far, in call order
  window,         \* observer: <<_prevTime before, position>> of the last
                  \* operation when it was a handled time update, else <<>>
  hasFired,       \* observer: ids of listed cues invoked at least once
  refired,        \* observer: ids invoked by the last operation that had
                  \* been invoked before it
  clearedIds,     \* observer: ids of the cues dropped by clearCues so far
  forwardFrom     \* observer of the handled time updates so far: NotStarted
                  \* before the first; Backward once one has lowered the
                  \* watermark; else _cueIDCounter as it was at the first

VARIABLES
  _elements,      \* pInst._elements: array of handles (by handle number)
  handles,        \* the handles created so far, by number: kind, whether
                  \* elt.parentNode is set, keys of _events, listeners that
                  \* are attached to elt, state of elt.srcObject
  threw,          \* what the last operation threw, "none" if it returned
  domOp,          \* observer: the last operation on the registry
  removeCalled    \* observer: handles on which remove() has been called

cueVars == <<_cues, _cueIDCounter, _prevTime, ontimeupdate, currentTime,
             calls, returned, window, hasFired, refired, clearedIds,
             forwardFrom>>

VARIABLES
  wrapped         \* observer: what the last select() / selectAll() wrapped:
                  \* one record per node found, the node and the capability
                  \* its handle was given

VARIABLES
  autoplayAttr,   \* this.elt.getAttribute('autoplay'): "null", "true", "false"
  readyState,     \* this.elt.readyState
  canplay,        \* number of once-listeners for 'canplay' that autoplay()
                  \* has attached to elt and that have not run yet
  watchdogs       \* one record per _setupAutoplayFailDetection call: state
                  \* of its timer, whether its once-listener for 'play' is
                  \* still attached, how often it called _friendlyAutoplayError

VARIABLES
  loadedmetadata,      \* this.loadedmetadata
  presetPlaybackRate,  \* this.presetPlaybackRate: <<v>>, or <<>> when absent
  playbackRate,        \* this.elt.playbackRate
  promises,            \* promises of elt.play() that are not settled yet
  reported,            \* what the catch handler of the last settled promise did
  loopAttr,            \* elt.getAttribute('loop'): "null" when absent
  playing,             \* whether the host is playing the media
  sources,             \* src of the SOURCE children of the media node, in
                       \* order, as the host reports it (a resolved URL)
  eltSrc               \* this.elt.src as the host reports it, "" when unset

VARIABLES
  options,        \* the OPTION children of the SELECT of the select handle,
                  \* in order: label (innerHTML) and value of each
  multiple,       \* whether the SELECT has the attribute multiple
  selection,      \* indices of the options whose selectedness is true
  returns         \* what the last call on the select or radio handle
                  \* returned: its kind and the values it carries

domVars == <<_elements, handles, threw, domOp, removeCalled>>

VARIABLES
  radioCount,     \* per radio handle: count, as createRadio computed it
  radioTimes,     \* per radio handle: times, the counter of its option()
  radioElt,       \* per radio handle: the container it wraps (self.elt)
  radioChildren   \* per container: elt.children, INPUT and LABEL nodes

selectVars == <<options, multiple, selection, returns>>

VARIABLES
  files           \* the files passed to p5.File._load, in call order: type,
                  \* whether the content parses, state of the read, number
                  \* of callback invocations, data of the p5.File passed

radioVars == <<radioCount, radioTimes, radioElt, radioChildren>>

VARIABLES
  hostCapture,    \* what the host offers for device capture: "native"
                  \* (navigator.mediaDevices.getUserMedia), "legacy"
                  \* (webkitGetUserMedia / mozGetUserMedia) or "none"
  getUserMedia,   \* navigator.mediaDevices.getUserMedia once dom.js is loaded
  captures,       \* per handle number: state of the promise createCapture
                  \* got from getUserMedia
  logged          \* number of console.log calls of createCapture's handler

fileVars == <<files>>

captureVars == <<hostCapture, getUserMedia, captures, logged>>

controlVars == <<selectVars, radioVars, fileVars, captureVars>>

wrapVars == <<wrapped>>

autoplayVars == <<autoplayAttr, readyState, canplay, watchdogs>>

playVars == <<loadedmetadata, presetPlaybackRate, playbackRate, promises,
              reported, loopAttr, playing, sources, eltSrc>>

vars == <<cueVars, domVars, wrapVars, autoplayVars, playVars, controlVars>>

\* ------------------------------------------------------------------ Cue
\* var Cue = function(callback, time, id, val)
Cue(callback, time, id, val) ==
  [callback |-> callback, time |-> time, id |-> id, val |-> val]

\* Variant: removal by moving the last element into the freed slot.
SpliceSwap(s, i) ==
  [k \in 1..(Len(s) - 1) |-> IF k = i THEN s[Len(s)] ELSE s[k]]

\* Variant: splice(i) without a delete count, which drops the whole tail.
SpliceTruncate(s, i) == SubSeq(s, 1, i - 1)

\* Array.prototype.splice(i, 1) on a 1-based sequence
Splice(s, i) == [k \in 1..(Len(s) - 1) |-> IF k < i THEN s[k] ELSE s[k + 1]]

CueIds(cues) == {cues[k].id : k \in 1..Len(cues)}

\* --------------------------------------------------------------- Init
\* this._elements = [] of a p5 instance on which nothing was created
DomInit ==
  /\ _elements = <<>>
  /\ handles = <<>>
  /\ threw = "none"
  /\ domOp = <<"none">>
  /\ removeCalled = {}
  /\ wrapped = <<>>

\* A media element as document.createElement leaves it, before createMedia
\* or createCapture has set loadedmetadata
MediaInit ==
  /\ autoplayAttr = "null"
  /\ readyState = 0
  /\ canplay = 0
  /\ watchdogs = <<>>
  /\ loadedmetadata = FALSE
  /\ presetPlaybackRate = <<>>
  /\ playbackRate = 1
  /\ promises = 0
  /\ reported = "none"
  /\ loopAttr = "null"
  /\ playing = FALSE
  /\ sources = <<>>
  /\ eltSrc = ""

\* Variant: the watermark starts below every position.
CueInitBelowZero ==
  /\ _cues = <<>>
  /\ _cueIDCounter = 0
  /\ _prevTime = 0 - 1
  /\ ontimeupdate = "null"
  /\ currentTime = 0
  /\ calls = <<>>
  /\ returned = <<>>
  /\ window = <<>>
  /\ hasFired = {}
  /\ refired = {}
  /\ clearedIds = {}
  /\ forwardFrom = NotStarted

\* p5.MediaElement constructor
CueInit ==
  /\ _cues = <<>>
  /\ _cueIDCounter = 0
  /\ _prevTime = 0
  /\ ontimeupdate = "null"
  /\ currentTime = 0
  /\ calls = <<>>
  /\ returned = <<>>
  /\ window = <<>>
  /\ hasFired = {}
  /\ refired = {}
  /\ clearedIds = {}
  /\ forwardFrom = NotStarted

\* No select, radio group, file read or capture request exists yet
ControlInit ==
  /\ options = <<>>
  /\ multiple = FALSE
  /\ selection = {}
  /\ returns = [kind |-> "none", vals |-> <<>>]
  /\ radioCount = <<>>
  /\ radioTimes = <<>>
  /\ radioElt = <<>>
  /\ radioChildren = <<>>
  /\ files = <<>>
  /\ hostCapture = "native"
  /\ getUserMedia = "native"
  /\ captures = <<>>
  /\ logged = 0

Init ==
  /\ DomInit
  /\ MediaInit
  /\ CueInit
  /\ ControlInit

\* --------------------------------------------------------------- addCue
addCue(time, callback, val) ==
  /\ _cueIDCounter < MaxCueID
  /\ LET id == _cueIDCounter
         cue == Cue(callback, time, id, val)
     IN /\ _cueIDCounter' = _cueIDCounter + 1
        /\ _cues' = Append(_cues, cue)
        /\ ontimeupdate' = IF ontimeupdate = "null" THEN "_onTimeUpdate"
                           ELSE ontimeupdate
        /\ returned' = Append(returned, id)
  /\ calls' = <<>> /\ window' = <<>> /\ refired' = {}
  /\ UNCHANGED <<_prevTime, currentTime, hasFired, clearedIds, forwardFrom>>

\* ------------------------------------------------------------ removeCue
\* for (i = 0; i < this._cues.length; i++) if (id matches) splice(i, 1)
\* The index is not moved back after a splice.
RECURSIVE RemoveLoop(_, _, _)
RemoveLoop(i, cues, id) ==
  IF i > Len(cues) THEN cues
  ELSE IF cues[i].id = id THEN RemoveLoop(i + 1, Splice(cues, i), id)
       ELSE RemoveLoop(i + 1, cues, id)

\* Variant: removeCue that leaves elt.ontimeupdate bound.
removeCueKeep(id) ==
  /\ _cues' = RemoveLoop(1, _cues, id)
  /\ ontimeupdate' = ontimeupdate
  /\ hasFired' = hasFired \cap CueIds(_cues')
  /\ calls' = <<>> /\ window' = <<>> /\ refired' = {}
  /\ UNCHANGED <<_cueIDCounter, _prevTime, currentTime, returned, clearedIds,
                 forwardFrom>>

removeCue(id) ==
  /\ _cues' = RemoveLoop(1, _cues, id)
  /\ ontimeupdate' = IF Len(_cues') = 0 THEN "null" ELSE ontimeupdate
  /\ hasFired' = hasFired \cap CueIds(_cues')
  /\ calls' = <<>> /\ window' = <<>> /\ refired' = {}
  /\ UNCHANGED <<_cueIDCounter, _prevTime, currentTime, returned, clearedIds,
                 forwardFrom>>

\* Variant: clearCues that also restarts the id counter.
clearCuesReset ==
  /\ _cues' = <<>>
  /\ _cueIDCounter' = 0
  /\ ontimeupdate' = "null"
  /\ hasFired' = {}
  /\ clearedIds' = clearedIds \cup CueIds(_cues)
  /\ calls' = <<>> /\ window' = <<>> /\ refired' = {}
  /\ UNCHANGED <<_prevTime, currentTime, returned, forwardFrom>>

\* Variant: clearCues that leaves elt.ontimeupdate bound.
clearCuesKeepSub ==
  /\ _cues' = <<>>
  /\ ontimeupdate' = ontimeupdate
  /\ hasFired' = {}
  /\ clearedIds' = clearedIds \cup CueIds(_cues)
  /\ calls' = <<>> /\ window' = <<>> /\ refired' = {}
  /\ UNCHANGED <<_cueIDCounter, _prevTime, currentTime, returned,
                 forwardFrom>>

\* ------------------------------------------------------------ clearCues
clearCues ==
  /\ _cues' = <<>>
  /\ ontimeupdate' = "null"
  /\ hasFired' = {}
  /\ clearedIds' = clearedIds \cup CueIds(_cues)
  /\ calls' = <<>> /\ window' = <<>> /\ refired' = {}
  /\ UNCHANGED <<_cueIDCounter, _prevTime, currentTime, returned,
                 forwardFrom>>

\* -------------------------------------------------------- _onTimeUpdate
\* Variant: window closed at both ends.
InWindowClosed(prev, callbackTime, playbackTime) ==
  prev <= callbackTime /\ callbackTime <= playbackTime

\* if (this._prevTime < callbackTime && callbackTime <= playbackTime)
InWindow(prev, callbackTime, playbackTime) ==
  prev < callbackTime /\ callbackTime <= playbackTime

\* this._cues[i].callback(val)
Invoke(cue) ==
  [id |-> cue.id, callback |-> cue.callback, args |-> <<cue.val>>]

\* for (i = 0; i < this._cues.length; i++) { ... }
RECURSIVE FireLoop(_, _, _, _, _)
FireLoop(i, cues, prev, playbackTime, acc) ==
  IF i > Len(cues) THEN acc
  ELSE IF InWindow(prev, cues[i].time, playbackTime)
       THEN FireLoop(i + 1, cues, prev, playbackTime, Append(acc, Invoke(cues[i])))
       ELSE FireLoop(i + 1, cues, prev, playbackTime, acc)

FiredIds(log) == {log[k].id : k \in 1..Len(log)}

\* Variant: the watermark is never written.
WatermarkStuck(prev, playbackTime) == prev

\* Variant: the watermark only ever rises.
WatermarkMax(prev, playbackTime) ==
  IF playbackTime > prev THEN playbackTime ELSE prev

\* this._prevTime = playbackTime
Watermark(prev, playbackTime) == playbackTime

_onTimeUpdate ==
  LET playbackTime == currentTime'
  IN /\ calls' = FireLoop(1, _cues, _prevTime, playbackTime, <<>>)
     /\ _prevTime' = Watermark(_prevTime, playbackTime)
     /\ window' = <<_prevTime, playbackTime>>
     /\ hasFired' = hasFired \cup FiredIds(calls')
     /\ refired' = hasFired \cap FiredIds(calls')
     /\ forwardFrom' = IF playbackTime < _prevTime THEN Backward
                       ELSE IF forwardFrom = NotStarted THEN _cueIDCounter
                       ELSE forwardFrom
     /\ UNCHANGED <<_cues, _cueIDCounter, ontimeupdate, returned, clearedIds>>

\* The host moves the playback position to t and dispatches "timeupdate";
\* the handler runs only while elt.ontimeupdate is bound.
TimeUpdate(t) ==
  /\ currentTime' = t
  /\ IF ontimeupdate = "_onTimeUpdate"
     THEN _onTimeUpdate
     ELSE /\ calls' = <<>> /\ window' = <<>> /\ refired' = {}
          /\ UNCHANGED <<_cues, _cueIDCounter, _prevTime, ontimeupdate,
                         returned, hasFired, clearedIds, forwardFrom>>

\* ----------------------------------------------------------------- Next
DoAddCue ==
  /\ \E a \in AddCueArgs : addCue(a[1], a[2], a[3])
  /\ UNCHANGED <<domVars, wrapVars, autoplayVars, playVars, controlVars>>
DoRemoveCue ==
  /\ \E id \in 0..MaxCueID : removeCue(id)
  /\ UNCHANGED <<domVars, wrapVars, autoplayVars, playVars, controlVars>>
DoClearCues ==
  /\ clearCues
  /\ UNCHANGED <<domVars, wrapVars, autoplayVars, playVars, controlVars>>
DoTimeUpdate ==
  /\ \E t \in Positions : TimeUpdate(t)
  /\ UNCHANGED <<domVars, wrapVars, autoplayVars, playVars, controlVars>>

Next ==
  \/ DoAddCue
  \/ DoRemoveCue
  \/ DoClearCues
  \/ DoTimeUpdate

Spec == Init /\ [][Next]_vars

\* ------------------------------------------ callbacks that call removeCue
\* addCue arguments whose callback calls back into the handle while a time
\* update is evaluated: "removeSelf" calls this.removeCue(id) with the id
\* addCue returned for it, "removeFirst" calls removeCue(0), the id of the
\* cue added first; "f" calls nothing.
ReentrantCueArgs == {<<5, "f", "undefined">>, <<5, "removeSelf", "undefined">>,
                     <<10, "removeFirst", "v">>, <<10, "f", "v">>}

\* this._cues after the callback of cue has returned
AfterCallback(cues, cue) ==
  IF cue.callback = "removeSelf" THEN RemoveLoop(1, cues, cue.id)
  ELSE IF cue.callback = "removeFirst" THEN RemoveLoop(1, cues, 0)
  ELSE cues

\* for (var i = 0; i < this._cues.length; i++) { ... } with this._cues read
\* again in every round: the index moves on over the array as the
\* callbacks have left it.
RECURSIVE ReentrantLoop(_, _, _, _, _)
ReentrantLoop(i, cues, prev, playbackTime, acc) ==
  IF i > Len(cues) THEN [cues |-> cues, calls |-> acc]
  ELSE IF InWindow(prev, cues[i].time, playbackTime)
       THEN ReentrantLoop(i + 1, AfterCallback(cues, cues[i]), prev,
                          playbackTime, Append(acc, Invoke(cues[i])))
       ELSE ReentrantLoop(i + 1, cues, prev, playbackTime, acc)

\* _onTimeUpdate with such callbacks; removeCue unbinds elt.ontimeupdate
\* when it leaves the list empty.
_onTimeUpdateReentrant ==
  LET playbackTime == currentTime'
      r == ReentrantLoop(1, _cues, _prevTime, playbackTime, <<>>)
  IN /\ calls' = r.calls
     /\ _cues' = r.cues
     /\ ontimeupdate' = IF Len(r.cues) = 0 THEN "null" ELSE ontimeupdate
     /\ _prevTime' = Watermark(_prevTime, playbackTime)
     /\ window' = <<_prevTime, playbackTime>>
     /\ hasFired' = (hasFired \cup FiredIds(r.calls)) \cap CueIds(r.cues)
     /\ refired' = hasFired \cap FiredIds(r.calls)
     /\ forwardFrom' = IF playbackTime < _prevTime THEN Backward
                       ELSE IF forwardFrom = NotStarted THEN _cueIDCounter
                       ELSE forwardFrom
     /\ UNCHANGED <<_cueIDCounter, returned, clearedIds>>

DoAddReentrantCue ==
  /\ \E a \in ReentrantCueArgs : addCue(a[1], a[2], a[3])
  /\ UNCHANGED <<domVars, wrapVars, autoplayVars, playVars, controlVars>>
DoTimeUpdateReentrant ==
  /\ \E t \in Positions :
       /\ currentTime' = t
       /\ IF ontimeupdate = "_onTimeUpdate"
          THEN _onTimeUpdateReentrant
          ELSE /\ calls' = <<>> /\ window' = <<>> /\ refired' = {}
               /\ UNCHANGED <<_cues, _cueIDCounter, _prevTime, ontimeupdate,
                              returned, hasFired, clearedIds, forwardFrom>>
  /\ UNCHANGED <<domVars, wrapVars, autoplayVars, playVars, controlVars>>

ReentrantNext ==
  \/ DoAddReentrantCue
  \/ DoTimeUpdateReentrant
  \/ DoRemoveCue

SpecReentrant == Init /\ [][ReentrantNext]_vars

\* ============================================================== registry
\* Kinds of handle a creation call registers.  "canvas" is the handle of
\* createCanvas / createGraphics, whose elt is an HTMLCanvasElement.
MediaKinds == {"mediaURL", "mediaCapture"}
ElementKinds == {"plain", "checkbox", "select", "radio"}
CreatedKinds == ElementKinds \cup MediaKinds \cup {"canvas"}

\* Event kinds bound through p5.Element.prototype.changed(fxn).
EventKinds == {"change"}

\* function addElement(elt, pInst, media): the node is appended to the
\* container and the new handle is pushed onto pInst._elements.
NewHandle(kind) ==
  [kind |-> kind, attached |-> TRUE, events |-> {}, listeners |-> {},
   srcObject |-> "null"]

addElement(kind) ==
  /\ Len(handles) < MaxHandles
  /\ handles' = Append(handles, NewHandle(kind))
  /\ _elements' = Append(_elements, Len(handles) + 1)
  /\ threw' = "none"
  /\ domOp' = <<"create", Len(handles) + 1>>
  /\ UNCHANGED removeCalled

\* createCanvas registers its handle in the same array.
createCanvas ==
  /\ Len(handles) < MaxHandles
  /\ handles' = Append(handles, NewHandle("canvas"))
  /\ _elements' = Append(_elements, Len(handles) + 1)
  /\ threw' = "none"
  /\ domOp' = <<"create", Len(handles) + 1>>
  /\ UNCHANGED removeCalled

\* createCapture: getUserMedia(constraints).then(stream => elt.srcObject = stream)
streamResolved(h) ==
  /\ handles[h].kind = "mediaCapture"
  /\ handles[h].srcObject = "null"
  /\ handles' = [handles EXCEPT ![h].srcObject = "live"]
  /\ threw' = "none"
  /\ domOp' = <<"stream", h>>
  /\ UNCHANGED <<_elements, removeCalled>>

\* p5.Element._adjustListener(ev, fxn, ctx) with a function: the handler is
\* attached to elt and recorded in ctx._events[ev].
_adjustListener(ev, h) ==
  /\ ev \notin handles[h].events
  /\ handles' = [handles EXCEPT ![h].events = @ \cup {ev},
                                ![h].listeners = @ \cup {ev}]
  /\ threw' = "none"
  /\ domOp' = <<"listen", h>>
  /\ UNCHANGED <<_elements, removeCalled>>

\* p5.Element.prototype.changed(fxn) with a function
changed(h) == \E ev \in EventKinds : _adjustListener(ev, h)

\* this._pInst._elements.indexOf(this): 0 stands for -1
IndexOf(els, h) ==
  IF \E k \in 1..Len(els) : els[k] = h
  THEN CHOOSE k \in 1..Len(els) : els[k] = h /\ \A j \in 1..(k - 1) : els[j] # h
  ELSE 0

\* p5.Element.prototype.remove on handle h, as a function of the registry
\* and the handles: this.elt.srcObject.getTracks() throws a TypeError on a
\* media handle whose elt.srcObject is null, before anything is changed.
RemoveFrom(els, hs, h) ==
  IF hs[h].kind \in MediaKinds /\ hs[h].srcObject = "null"
  THEN [els |-> els, hs |-> hs, threw |-> "TypeError"]
  ELSE LET index == IndexOf(els, h)
       IN [els |-> IF index # 0 THEN Splice(els, index) ELSE els,
           hs |-> [hs EXCEPT ![h].srcObject = IF @ = "live" THEN "stopped" ELSE @,
                             ![h].listeners = @ \ hs[h].events,
                             ![h].attached = FALSE],
           threw |-> "none"]

remove(h) ==
  LET r == RemoveFrom(_elements, handles, h)
  IN /\ _elements' = r.els
     /\ handles' = r.hs
     /\ threw' = r.threw
     /\ domOp' = <<"remove", h>>
     /\ removeCalled' = removeCalled \cup {h}

\* for (i = 0; i < this._elements.length; i++)
\*   if (!(this._elements[i].elt instanceof HTMLCanvasElement))
\*     this._elements[i].remove();
\* The index moves on after a remove() that spliced the array.
RECURSIVE RemoveElementsLoop(_, _, _, _)
RemoveElementsLoop(i, els, hs, called) ==
  IF i > Len(els) THEN [els |-> els, hs |-> hs, threw |-> "none", called |-> called]
  ELSE IF hs[els[i]].kind # "canvas"
       THEN LET r == RemoveFrom(els, hs, els[i])
            IN IF r.threw # "none"
               THEN [els |-> r.els, hs |-> r.hs, threw |-> r.threw,
                     called |-> called \cup {els[i]}]
               ELSE RemoveElementsLoop(i + 1, r.els, r.hs, called \cup {els[i]})
       ELSE RemoveElementsLoop(i + 1, els, hs, called)

removeElements ==
  LET r == RemoveElementsLoop(1, _elements, handles, {})
  IN /\ _elements' = r.els
     /\ handles' = r.hs
     /\ threw' = r.threw
     /\ domOp' = <<"removeElements">>
     /\ removeCalled' = removeCalled \cup r.called

DoCreate ==
  /\ \E kind \in ElementKinds \cup MediaKinds : addElement(kind)
  /\ UNCHANGED <<cueVars, wrapVars, autoplayVars, playVars, controlVars>>
DoCreateCanvas ==
  /\ createCanvas
  /\ UNCHANGED <<cueVars, wrapVars, autoplayVars, playVars, controlVars>>
DoStreamResolved ==
  /\ \E h \in 1..Len(handles) : streamResolved(h)
  /\ UNCHANGED <<cueVars, wrapVars, autoplayVars, playVars, controlVars>>
DoChanged ==
  /\ \E h \in 1..Len(handles) : changed(h)
  /\ UNCHANGED <<cueVars, wrapVars, autoplayVars, playVars, controlVars>>
DoRemove ==
  /\ \E h \in 1..Len(handles) : remove(h)
  /\ UNCHANGED <<cueVars, wrapVars, autoplayVars, playVars, controlVars>>
DoRemoveElements ==
  /\ removeElements
  /\ UNCHANGED <<cueVars, wrapVars, autoplayVars, playVars, controlVars>>

DomNext ==
  \/ DoCreate
  \/ DoCreateCanvas
  \/ DoStreamResolved
  \/ DoChanged
  \/ DoRemove
  \/ DoRemoveElements

SpecDom == Init /\ [][DomNext]_vars

\* ========================================================== _wrapElement
\* Host nodes handed to _wrapElement: tagName, type (of an INPUT) and the
\* tagNames of elt.children.  An INPUT has no children.
ChildLists == {<<>>, <<"INPUT">>, <<"LABEL">>, <<"INPUT", "LABEL">>,
               <<"INPUT", "SPAN">>, <<"OPTION">>, <<"SOURCE">>}
Nodes ==
  [tagName : {"INPUT"}, type : {"checkbox", "radio", "text"}, children : {<<>>}]
  \cup [tagName : {"VIDEO", "AUDIO", "SELECT", "DIV", "LABEL"}, type : {""},
        children : ChildLists]

\* Lists of nodes a selectAll() query finds.
FoundLists ==
  {<<>>,
   <<[tagName |-> "SELECT", type |-> "", children |-> <<"OPTION">>],
     [tagName |-> "DIV", type |-> "", children |-> <<"INPUT", "LABEL">>]>>,
   <<[tagName |-> "DIV", type |-> "", children |-> <<>>],
     [tagName |-> "VIDEO", type |-> "", children |-> <<"INPUT">>]>>,
   <<[tagName |-> "INPUT", type |-> "checkbox", children |-> <<>>],
     [tagName |-> "DIV", type |-> "", children |-> <<"INPUT", "SPAN">>],
     [tagName |-> "SELECT", type |-> "", children |-> <<"INPUT">>]>>}

\* The registry as a value: pInst._elements and the handles.
AddElementTo(reg, kind) ==
  [els |-> Append(reg.els, Len(reg.hs) + 1),
   hs |-> Append(reg.hs, NewHandle(kind))]

\* Variant: the select container is registered again when it is wrapped.
createSelectRegister(reg, existing) == AddElementTo(reg, "select")

\* p5.prototype.createSelect: with an existing SELECT handle as argument
\* (typeof arg === 'object' && arg.elt.nodeName === 'SELECT') the handle is
\* reused; otherwise a SELECT is created and passed to addElement.
createSelect(reg, existing) ==
  IF existing THEN reg ELSE AddElementTo(reg, "select")

\* p5.prototype.createRadio: with an existing handle as argument
\* (typeof existing_radios === 'object') the handle is reused; otherwise a
\* DIV is created and passed to addElement.
createRadio(reg, existing) ==
  IF existing THEN reg ELSE AddElementTo(reg, "radio")

\* Variant: the test children.length > 0 is left out.
IsRadioContainerEvery(children) ==
  \A k \in 1..Len(children) : children[k] \in {"INPUT", "LABEL"}

\* children.length > 0 &&
\*   children.every(c => c.tagName === 'INPUT' || c.tagName === 'LABEL')
IsRadioContainer(children) ==
  /\ Len(children) > 0
  /\ \A k \in 1..Len(children) : children[k] \in {"INPUT", "LABEL"}

\* p5.prototype._wrapElement(elt): the capability of the handle it returns
\* and the registry after it.
_wrapElement(reg, elt) ==
  IF elt.tagName = "INPUT" /\ elt.type = "checkbox"
  THEN [capability |-> "checkbox", reg |-> reg]
  ELSE IF elt.tagName = "VIDEO" \/ elt.tagName = "AUDIO"
  THEN [capability |-> "media", reg |-> reg]
  ELSE IF elt.tagName = "SELECT"
  THEN [capability |-> "select", reg |-> createSelect(reg, TRUE)]
  ELSE IF IsRadioContainer(elt.children)
  THEN [capability |-> "radio", reg |-> createRadio(reg, TRUE)]
  ELSE [capability |-> "plain", reg |-> reg]

\* p5.prototype.select(e, p) when the query finds node elt
select(elt) ==
  LET r == _wrapElement([els |-> _elements, hs |-> handles], elt)
  IN /\ wrapped' = <<[node |-> elt, capability |-> r.capability]>>
     /\ _elements' = r.reg.els
     /\ handles' = r.reg.hs
     /\ threw' = "none"
     /\ domOp' = <<"select">>
     /\ UNCHANGED removeCalled

\* for (let j = 0; j < res.length; j++) arr.push(this._wrapElement(res[j]))
RECURSIVE SelectAllLoop(_, _, _, _)
SelectAllLoop(j, res, reg, arr) ==
  IF j > Len(res) THEN [reg |-> reg, arr |-> arr]
  ELSE LET r == _wrapElement(reg, res[j])
       IN SelectAllLoop(j + 1, res, r.reg,
                        Append(arr, [node |-> res[j], capability |-> r.capability]))

\* p5.prototype.selectAll(e, p) when the query finds the nodes res
selectAll(res) ==
  LET r == SelectAllLoop(1, res, [els |-> _elements, hs |-> handles], <<>>)
  IN /\ wrapped' = r.arr
     /\ _elements' = r.reg.els
     /\ handles' = r.reg.hs
     /\ threw' = "none"
     /\ domOp' = <<"selectAll">>
     /\ UNCHANGED removeCalled

\* createSelect() and createRadio() called to create a new element
createNew(kind) ==
  LET reg == [els |-> _elements, hs |-> handles]
      r == IF kind = "select" THEN createSelect(reg, FALSE)
           ELSE createRadio(reg, FALSE)
  IN /\ Len(handles) < MaxHandles
     /\ _elements' = r.els
     /\ handles' = r.hs
     /\ threw' = "none"
     /\ domOp' = <<"create", Len(handles) + 1>>
     /\ UNCHANGED <<removeCalled, wrapped>>

DoCreateSelect ==
  /\ createNew("select")
  /\ UNCHANGED <<cueVars, autoplayVars, playVars, controlVars>>
DoCreateRadio ==
  /\ createNew("radio")
  /\ UNCHANGED <<cueVars, autoplayVars, playVars, controlVars>>
DoSelect ==
  /\ \E elt \in Nodes : select(elt)
  /\ UNCHANGED <<cueVars, autoplayVars, playVars, controlVars>>
DoSelectAll ==
  /\ \E res \in FoundLists : selectAll(res)
  /\ UNCHANGED <<cueVars, autoplayVars, playVars, controlVars>>

WrapNext ==
  \/ DoCreate
  \/ DoCreateSelect
  \/ DoCreateRadio
  \/ DoSelect
  \/ DoSelectAll

SpecWrap == Init /\ [][WrapNext]_vars

\* ----------------------------------------- wrapping the node of a handle
\* A handle with its node: the p5.Element that addElement(elt, pInst)
\* returns, with elt as _wrapElement reads it.
NewElement(kind, elt) ==
  [kind |-> kind, attached |-> TRUE, events |-> {}, listeners |-> {},
   srcObject |-> "null", elt |-> elt]

Node(tagName, children) == [tagName |-> tagName, type |-> "", children |-> children]

\* The node each creation call passes to addElement.  createCheckbox makes
\* a DIV around the INPUT of type checkbox, and a LABEL behind it when a
\* label is passed; createSelect a SELECT; createRadio a DIV without
\* children; createVideo / createAudio a VIDEO / AUDIO with its SOURCE.
CreatedNodes ==
  {<<"checkbox", Node("DIV", <<"INPUT">>)>>,
   <<"checkbox", Node("DIV", <<"INPUT", "LABEL">>)>>,
   <<"select", Node("SELECT", <<>>)>>,
   <<"radio", Node("DIV", <<>>)>>,
   <<"mediaURL", Node("VIDEO", <<"SOURCE">>)>>,
   <<"mediaURL", Node("AUDIO", <<"SOURCE">>)>>}

createWithNode(kind, elt) ==
  /\ Len(handles) < MaxHandles
  /\ handles' = Append(handles, NewElement(kind, elt))
  /\ _elements' = Append(_elements, Len(handles) + 1)
  /\ threw' = "none"
  /\ domOp' = <<"create", Len(handles) + 1>>
  /\ UNCHANGED <<removeCalled, wrapped>>

\* self.option(name) of the select or radio handle h with a new name: the
\* select appends an OPTION and pushes it onto _elements, the radio
\* appends an INPUT and its LABEL.
optionOnNode(h) ==
  /\ handles[h].kind \in {"select", "radio"}
  /\ IF handles[h].kind = "select"
     THEN /\ Len(handles[h].elt.children) < MaxOptions
          /\ handles' = [handles EXCEPT ![h].elt.children = Append(@, "OPTION")]
          /\ _elements' = Append(_elements, 0)
     ELSE /\ Len(handles[h].elt.children) < 2 * MaxRadioInputs
          /\ handles' = [handles EXCEPT
                           ![h].elt.children = @ \o <<"INPUT", "LABEL">>]
          /\ UNCHANGED _elements
  /\ threw' = "none"
  /\ domOp' = <<"option", h>>
  /\ UNCHANGED <<removeCalled, wrapped>>

\* select() finds the node of handle h
selectCreated(h) == select(handles[h].elt)

DoCreateWithNode ==
  /\ \E c \in CreatedNodes : createWithNode(c[1], c[2])
  /\ UNCHANGED <<cueVars, autoplayVars, playVars, controlVars>>
DoOptionOnNode ==
  /\ \E h \in 1..Len(handles) : optionOnNode(h)
  /\ UNCHANGED <<cueVars, autoplayVars, playVars, controlVars>>
DoSelectCreated ==
  /\ \E h \in 1..Len(handles) : selectCreated(h)
  /\ UNCHANGED <<cueVars, autoplayVars, playVars, controlVars>>

CreateWrapNext ==
  \/ DoCreateWithNode
  \/ DoOptionOnNode
  \/ DoSelectCreated

SpecCreateWrap == Init /\ [][CreateWrapNext]_vars

\* ============================================================== autoplay
\* The media handle of SpecAutoplay and SpecPlayback is handle 1, made by
\* createVideo / createAudio ("mediaURL") or createCapture ("mediaCapture").
MediaHandleInit ==
  /\ \E kind \in MediaKinds : handles = <<NewHandle(kind)>>
  /\ _elements = <<1>>
  /\ threw = "none"
  /\ domOp = <<"create", 1>>
  /\ removeCalled = {}
  /\ wrapped = <<>>

Scheduled == Len(watchdogs) + canplay

\* Variant: the listener for 'play' leaves the timer running.
OnPlayKeepTimer(w) == [w EXCEPT !.listening = FALSE]

\* this.elt.addEventListener('play', () => clearTimeout(timeout),
\*                           {passive: true, once: true})
\* run for one watchdog when 'play' is dispatched: clearTimeout on a timer
\* that has fired does nothing.
OnPlay(w) ==
  IF w.listening
  THEN [w EXCEPT !.timer = IF @ = "pending" THEN "cleared" ELSE @,
                 !.listening = FALSE]
  ELSE w

\* p5.MediaElement.prototype._setupAutoplayFailDetection
_setupAutoplayFailDetection(ws) ==
  Append(ws, [timer |-> "pending", listening |-> TRUE, signals |-> 0])

\* Variant: every autoplay(true) counts as turning autoplay on.
TurnedOnAlways(val, oldVal) == val

\* if (val && !oldVal): oldVal is null or a non-empty string
TurnedOn(val, oldVal) == val /\ oldVal = "null"

\* p5.MediaElement.prototype.autoplay(val)
autoplay(val) ==
  LET oldVal == autoplayAttr
  IN /\ TurnedOn(val, oldVal) => Scheduled < MaxWatchdogs
     /\ autoplayAttr' = IF val THEN "true" ELSE "false"
     /\ IF TurnedOn(val, oldVal)
        THEN IF readyState = 4
             THEN /\ watchdogs' = _setupAutoplayFailDetection(watchdogs)
                  /\ UNCHANGED canplay
             ELSE /\ canplay' = canplay + 1
                  /\ UNCHANGED watchdogs
        ELSE UNCHANGED <<canplay, watchdogs>>
     /\ domOp' = <<"autoplay", val>>
     /\ threw' = "none"
     /\ UNCHANGED <<readyState, _elements, handles, removeCalled>>

\* p5.Element.prototype.removeAttribute('autoplay')
removeAttribute ==
  /\ autoplayAttr' = "null"
  /\ domOp' = <<"removeAttribute">>
  /\ threw' = "none"
  /\ UNCHANGED <<readyState, canplay, watchdogs, _elements, handles,
                 removeCalled>>

RECURSIVE SetupTimes(_, _)
SetupTimes(n, ws) ==
  IF n = 0 THEN ws ELSE SetupTimes(n - 1, _setupAutoplayFailDetection(ws))

\* The host dispatches 'canplay': readyState is HAVE_ENOUGH_DATA and every
\* once-listener attached by autoplay() runs and is detached.
canplayEvent ==
  /\ readyState' = 4
  /\ watchdogs' = SetupTimes(canplay, watchdogs)
  /\ canplay' = 0
  /\ domOp' = <<"canplay">>
  /\ threw' = "none"
  /\ UNCHANGED <<autoplayAttr, _elements, handles, removeCalled>>

\* The host dispatches 'play': playback has started.
playEvent ==
  /\ watchdogs' = [i \in 1..Len(watchdogs) |-> OnPlay(watchdogs[i])]
  /\ domOp' = <<"play">>
  /\ threw' = "none"
  /\ UNCHANGED <<autoplayAttr, readyState, canplay, _elements, handles,
                 removeCalled>>

\* setTimeout(() => p5._friendlyAutoplayError(this.src), 500) of watchdog i
\* runs: 500 ms have passed and the timer was not cleared.
timeout(i) ==
  /\ watchdogs[i].timer = "pending"
  /\ watchdogs' = [watchdogs EXCEPT ![i].timer = "fired", ![i].signals = @ + 1]
  /\ domOp' = <<"timeout", i>>
  /\ threw' = "none"
  /\ UNCHANGED <<autoplayAttr, readyState, canplay, _elements, handles,
                 removeCalled>>

DoAutoplay ==
  /\ \E val \in BOOLEAN : autoplay(val)
  /\ UNCHANGED <<cueVars, wrapVars, playVars, controlVars>>
DoRemoveAttribute ==
  /\ removeAttribute
  /\ UNCHANGED <<cueVars, wrapVars, playVars, controlVars>>
DoCanplayEvent ==
  /\ canplayEvent
  /\ UNCHANGED <<cueVars, wrapVars, playVars, controlVars>>
DoPlayEvent ==
  /\ playEvent
  /\ UNCHANGED <<cueVars, wrapVars, playVars, controlVars>>
DoTimeout(i) ==
  /\ i \in 1..Len(watchdogs)
  /\ timeout(i)
  /\ UNCHANGED <<cueVars, wrapVars, playVars, controlVars>>
DoTimeouts == \E i \in 1..MaxWatchdogs : DoTimeout(i)

AutoplayInit ==
  /\ CueInit
  /\ MediaInit
  /\ MediaHandleInit
  /\ ControlInit

AutoplayNext ==
  \/ DoAutoplay
  \/ DoRemoveAttribute
  \/ DoCanplayEvent
  \/ DoPlayEvent
  \/ DoTimeouts
  \/ DoStreamResolved
  \/ DoRemove

SpecAutoplay == AutoplayInit /\ [][AutoplayNext]_vars

\* A timer set by setTimeout runs once its delay has passed unless it is
\* cleared first.
SpecAutoplayFair ==
  SpecAutoplay /\ \A i \in 1..MaxWatchdogs : WF_vars(DoTimeout(i))

\* ============================================================== playback
\* Rates passed to speed(val)
Rates == {0, 2, 3}

\* Names of the errors a promise of elt.play() is rejected with
PlayErrors == {"NotAllowedError", "AbortError"}

\* this.elt.duration: the last of the positions the host reports
duration == 26

\* speed(val) with val given.
speed(val) ==
  /\ IF loadedmetadata
     THEN playbackRate' = val /\ UNCHANGED presetPlaybackRate
     ELSE presetPlaybackRate' = <<val>> /\ UNCHANGED playbackRate
  /\ domOp' = <<"speed", val>>
  /\ threw' = "none"
  /\ UNCHANGED <<loadedmetadata, promises, reported, currentTime, readyState,
                 playing>>

\* Variant: the preset is applied whenever one is buffered.
PresetGivenAny(preset) == preset # <<>>

\* if (c.presetPlaybackRate): absent and 0 are both falsy
PresetGiven(preset) == preset # <<>> /\ preset[1] # 0

\* The 'loadedmetadata' listener of the handle.  createMedia's listener
\* applies and deletes a truthy presetPlaybackRate and sets loadedmetadata;
\* createCapture's listener calls elt.play() and sets loadedmetadata, and
\* does not read presetPlaybackRate.
loadedmetadataEvent ==
  /\ IF handles[1].kind = "mediaURL" /\ PresetGiven(presetPlaybackRate)
     THEN /\ playbackRate' = presetPlaybackRate[1]
          /\ presetPlaybackRate' = <<>>
     ELSE UNCHANGED <<playbackRate, presetPlaybackRate>>
  /\ loadedmetadata' = TRUE
  /\ domOp' = <<"loadedmetadata">>
  /\ threw' = "none"
  /\ UNCHANGED <<promises, reported, currentTime, readyState, playing>>

\* The body of p5.MediaElement.prototype.play, run by the call of method
PlayBody(method) ==
  /\ promises < MaxPlays
  /\ currentTime' = IF currentTime = duration THEN 0 ELSE currentTime
  /\ readyState' = IF readyState > 1 THEN readyState ELSE 0
  /\ promises' = promises + 1
  /\ domOp' = <<"call", method>>
  /\ threw' = "none"
  /\ UNCHANGED <<loadedmetadata, presetPlaybackRate, playbackRate, reported,
                 playing>>

\* p5.MediaElement.prototype.play
play == PlayBody("play")

\* promise.catch(function(e) { ... }) runs with e.name = name.  Inside the
\* plain function `this` is not the handle: in strict code (dom.js is an ES
\* module) it is undefined and reading this.src throws a TypeError before
\* p5._friendlyAutoplayError is called; in a build that runs the function
\* as sloppy code it is the global object, whose src is undefined.
CatchHandler(name) ==
  IF name = "NotAllowedError"
  THEN {"TypeError", "_friendlyAutoplayError(undefined)"}
  ELSE {"console.error"}

\* The host rejects a pending promise of elt.play()
playRejected(name) ==
  /\ promises > 0
  /\ promises' = promises - 1
  /\ reported' \in CatchHandler(name)
  /\ domOp' = <<"rejected", name>>
  /\ threw' = "none"
  /\ UNCHANGED <<loadedmetadata, presetPlaybackRate, playbackRate,
                 currentTime, readyState, playing>>

\* The host resolves a pending promise of elt.play(): playback has started
playResolved ==
  /\ promises > 0
  /\ promises' = promises - 1
  /\ reported' = "none"
  /\ playing' = TRUE
  /\ domOp' = <<"resolved">>
  /\ threw' = "none"
  /\ UNCHANGED <<loadedmetadata, presetPlaybackRate, playbackRate,
                 currentTime, readyState>>

\* The position moves while no cue is listed: elt.ontimeupdate is null
positionMoves(t) ==
  /\ TimeUpdate(t)
  /\ domOp' = <<"timeupdate">>
  /\ threw' = "none"
  /\ UNCHANGED <<loadedmetadata, presetPlaybackRate, playbackRate,
                 promises, reported, readyState, playing>>

PlaybackFrame ==
  UNCHANGED <<_elements, handles, removeCalled, wrapVars, autoplayAttr,
              canplay, watchdogs, controlVars, loopAttr, sources, eltSrc>>
CueFrame ==
  UNCHANGED <<_cues, _cueIDCounter, _prevTime, ontimeupdate, calls,
              returned, window, hasFired, refired, clearedIds, forwardFrom>>

DoSpeed ==
  /\ \E val \in Rates : speed(val)
  /\ PlaybackFrame /\ CueFrame
DoLoadedmetadataEvent ==
  /\ loadedmetadataEvent
  /\ PlaybackFrame /\ CueFrame
DoPlay ==
  /\ play
  /\ PlaybackFrame /\ CueFrame
DoPlayRejected ==
  /\ \E name \in PlayErrors : playRejected(name)
  /\ PlaybackFrame /\ CueFrame
DoPlayResolved ==
  /\ playResolved
  /\ PlaybackFrame /\ CueFrame
DoPositionMoves ==
  /\ \E t \in {0, 12, duration} : positionMoves(t)
  /\ PlaybackFrame

PlaybackNext ==
  \/ DoSpeed
  \/ DoLoadedmetadataEvent
  \/ DoPlay
  \/ DoPlayRejected
  \/ DoPlayResolved
  \/ DoPositionMoves
  \/ DoCanplayEvent

SpecPlayback == AutoplayInit /\ [][PlaybackNext]_vars

\* ========================================================= loop / noLoop
\* The loop flag of the host element, elt.loop: a boolean attribute is on
\* while the attribute is present, whatever its value.
LoopFlag(attr) == attr # "null"

\* p5.MediaElement.prototype.loop:
\* this.elt.setAttribute('loop', true); this.play()
loop ==
  /\ loopAttr' = "true"
  /\ PlayBody("loop")

\* p5.MediaElement.prototype.noLoop: this.elt.setAttribute('loop', false),
\* which stores the string "false"
noLoop ==
  /\ loopAttr' = "false"
  /\ domOp' = <<"call", "noLoop">>
  /\ threw' = "none"
  /\ UNCHANGED <<loadedmetadata, presetPlaybackRate, playbackRate, promises,
                 reported, readyState, currentTime, playing>>

\* The media reaches its end while playing.  With the loop flag on the
\* host seeks to the start and goes on; else it stops and dispatches
\* 'ended', and self.elt.onended calls self._onended(self).
playbackEnds ==
  /\ playing
  /\ IF LoopFlag(loopAttr)
     THEN /\ currentTime' = 0
          /\ domOp' = <<"looped">>
          /\ UNCHANGED playing
     ELSE /\ currentTime' = duration
          /\ playing' = FALSE
          /\ domOp' = <<"ended", "_onended(self)">>
  /\ threw' = "none"
  /\ UNCHANGED <<loadedmetadata, presetPlaybackRate, playbackRate, promises,
                 reported, readyState, loopAttr>>

LoopFrame ==
  UNCHANGED <<_elements, handles, removeCalled, wrapVars, autoplayAttr,
              canplay, watchdogs, controlVars, sources, eltSrc>>

DoLoop ==
  /\ loop
  /\ LoopFrame /\ CueFrame
DoNoLoop ==
  /\ noLoop
  /\ LoopFrame /\ CueFrame
DoPlaybackEnds ==
  /\ playbackEnds
  /\ LoopFrame /\ CueFrame

LoopNext ==
  \/ DoLoop
  \/ DoNoLoop
  \/ DoPlaybackEnds
  \/ DoPlay
  \/ DoPlayResolved
  \/ DoPlayRejected
  \/ DoSpeed
  \/ DoLoadedmetadataEvent

SpecLoop == AutoplayInit /\ [][LoopNext]_vars

\* ============================================================ media.src
\* Values assigned to a src property; "" is the empty string of
\* createVideo() without a source, the others are absolute URLs.
SrcValues == {"", "u1", "u2", "u3"}

\* src arguments of createVideo / createAudio: a string or an array
SrcArgs == {<<"">>, <<"u1">>, <<"u1", "u2">>, <<"u2", "u1", "u2">>,
            <<"u1", "u2", "u3">>, <<"u3", "u2", "u1", "u2">>}

\* The src property of a host node after the assignment of v, as it is
\* read back: the empty string resolves to the address of the document
\* (window.location.href), an absolute URL to itself.
Resolve(v) == IF v = "" THEN "href" ELSE v

\* createMedia(pInst, type, src, callback): one SOURCE child per entry of
\* src; createCapture makes a VIDEO without children.
createMedia(kind, src) ==
  /\ handles = <<>>
  /\ addElement(kind)
  /\ sources' = IF kind = "mediaURL"
                THEN [k \in 1..Len(src) |-> Resolve(src[k])] ELSE <<>>
  /\ UNCHANGED eltSrc

\* for (var i = 0; i < self.elt.children.length; i++)
\*   self.elt.removeChild(self.elt.children[i]);
\* children is a live collection: the index moves on over what is left.
RECURSIVE RemoveChildrenLoop(_, _)
RemoveChildrenLoop(i, children) ==
  IF i > Len(children) THEN children
  ELSE RemoveChildrenLoop(i + 1, Splice(children, i))

\* The setter of the property src of the handle, with newValue = v
setSrc(v) ==
  /\ Len(handles) >= 1
  /\ sources' = Append(RemoveChildrenLoop(1, sources), Resolve(v))
  /\ eltSrc' = Resolve(v)
  /\ threw' = "none"
  /\ domOp' = <<"src.set", v>>
  /\ UNCHANGED <<_elements, handles, removeCalled>>

\* The getter of the property src of the handle: what it returns, or the
\* TypeError of reading src of children[0] when there is no child.
SrcGetter(children, src) ==
  IF children = <<>> THEN [threw |-> "TypeError", ret |-> <<>>]
  ELSE LET firstChildSrc == children[1]
           srcVal == IF src = "href" THEN "" ELSE src
       IN [threw |-> "none",
           ret |-> <<IF firstChildSrc = "href" THEN srcVal ELSE firstChildSrc>>]

getSrc ==
  /\ Len(handles) >= 1
  /\ threw' = SrcGetter(sources, eltSrc).threw
  /\ domOp' = <<"src.get">> \o SrcGetter(sources, eltSrc).ret
  /\ UNCHANGED <<_elements, handles, removeCalled, sources, eltSrc>>

SrcFrame ==
  UNCHANGED <<cueVars, wrapVars, autoplayVars, controlVars, loadedmetadata,
              presetPlaybackRate, playbackRate, promises, reported, loopAttr,
              playing>>

DoCreateMedia ==
  /\ \E kind \in MediaKinds, src \in SrcArgs : createMedia(kind, src)
  /\ SrcFrame
DoSetSrc ==
  /\ \E v \in SrcValues : setSrc(v)
  /\ SrcFrame
DoGetSrc ==
  /\ getSrc
  /\ SrcFrame

SrcNext ==
  \/ DoCreateMedia
  \/ DoSetSrc
  \/ DoGetSrc
  \/ DoStreamResolved
  \/ DoRemove

SpecSrc == Init /\ [][SrcNext]_vars

\* ========================================================== createSelect
\* Labels passed to option(name, ...)
Names == {"a", "x"}

\* A JavaScript argument: its type and its string form.  "absent" is an
\* argument that was not passed.
Absent == [type |-> "absent", str |-> "undefined"]
Str(v) == [type |-> "string", str |-> v]
False == [type |-> "boolean", str |-> "false"]

\* Second arguments of option(name, value)
OptionArgs == {Absent, Str("a"), Str("x"), Str("y"), False}
\* Arguments of selected(value)
SelectedArgs == {Str("x"), Str("y"), False}

\* createSelect() or createSelect(true): the select handle is handle 1
SelectHandleInit ==
  /\ handles = <<NewHandle("select")>>
  /\ _elements = <<1>>
  /\ threw = "none"
  /\ domOp = <<"create", 1>>
  /\ removeCalled = {}
  /\ wrapped = <<>>
  /\ options = <<>>
  /\ multiple \in BOOLEAN
  /\ selection = {}
  /\ returns = [kind |-> "handle", vals |-> <<>>]
  /\ radioCount = <<>>
  /\ radioTimes = <<>>
  /\ radioElt = <<>>
  /\ radioChildren = <<>>
  /\ files = <<>>
  /\ hostCapture = "native"
  /\ getUserMedia = "native"
  /\ captures = <<>>
  /\ logged = 0

\* Variant: the last option with this label is the one found.
FindOptionLast(opts, name) ==
  IF \E i \in 1..Len(opts) : opts[i].label = name
  THEN CHOOSE i \in 1..Len(opts) :
         opts[i].label = name /\ \A j \in (i + 1)..Len(opts) : opts[j].label # name
  ELSE 0

\* for (var i = 0; i < this.elt.length; i++)
\*   if (this.elt[i].innerHTML === name) { index = i; break; }
\* 0 stands for undefined.
FindOption(opts, name) ==
  IF \E i \in 1..Len(opts) : opts[i].label = name
  THEN CHOOSE i \in 1..Len(opts) :
         opts[i].label = name /\ \A j \in 1..(i - 1) : opts[j].label # name
  ELSE 0

\* The host's selectedness of the options after option index was removed:
\* the indices shift, and a SELECT without multiple that has options and
\* none selected selects its first option.
Reselect(sel, n, isMultiple) ==
  IF ~isMultiple /\ sel = {} /\ n > 0 THEN {1} ELSE sel

AfterRemove(sel, index, n, isMultiple) ==
  Reselect({i \in sel : i < index} \cup {i - 1 : i \in {j \in sel : j > index}},
           n, isMultiple)

\* Variant: an option that is found is updated without the label.
UpdateOptionValueOnly(opt, value) == [opt EXCEPT !.value = value.str]

\* if (this.elt[index].innerHTML === this.elt[index].value)
\*   this.elt[index].innerHTML = this.elt[index].value = value;
\* else this.elt[index].value = value;
UpdateOption(opt, value) ==
  IF opt.label = opt.value
  THEN [label |-> value.str, value |-> value.str]
  ELSE [opt EXCEPT !.value = value.str]

\* Variant: a new option takes its label as its value.
NewOptionByLabel(name, value) == [label |-> name, value |-> name]

\* opt.innerHTML = name;
\* if (arguments.length > 1) opt.value = value; else opt.value = name;
NewOption(name, value) ==
  [label |-> name, value |-> IF value.type # "absent" THEN value.str ELSE name]

\* self.option(name, value) of createSelect.  A new OPTION node is also
\* pushed onto pInst._elements, where 0 stands for a node that is not a
\* handle.
option(name, value) ==
  LET index == FindOption(options, name)
  IN /\ IF index # 0
        THEN IF value = False
             THEN /\ options' = Splice(options, index)
                  /\ selection' = AfterRemove(selection, index,
                                              Len(options) - 1, multiple)
                  /\ UNCHANGED _elements
             ELSE /\ options' = [options EXCEPT ![index] = UpdateOption(@, value)]
                  /\ UNCHANGED <<selection, _elements>>
        ELSE /\ Len(_elements) <= MaxOptions
             /\ options' = Append(options, NewOption(name, value))
             /\ selection' = Reselect(selection, Len(options) + 1, multiple)
             /\ _elements' = Append(_elements, 0)
     /\ returns' = [kind |-> "undefined", vals |-> <<>>]
     /\ domOp' = <<"option", name, value>>
     /\ threw' = "none"
     /\ UNCHANGED <<multiple, handles, removeCalled>>

\* Variant: the argument is compared without being turned into a string.
MatchSelectedStrict(opts, value) ==
  IF value.type = "string" /\ \E i \in 1..Len(opts) : opts[i].value = value.str
  THEN CHOOSE i \in 1..Len(opts) :
         opts[i].value = value.str /\ \A j \in (i + 1)..Len(opts) : opts[j].value # value.str
  ELSE 0

\* for (i = 0; i < this.elt.length; i++)
\*   if (value.toString() === this.elt[i].value) this.elt.selectedIndex = i;
\* The index selectedIndex is left at: the last match, 0 when none.
MatchSelected(opts, value) ==
  IF \E i \in 1..Len(opts) : opts[i].value = value.str
  THEN CHOOSE i \in 1..Len(opts) :
         opts[i].value = value.str /\ \A j \in (i + 1)..Len(opts) : opts[j].value # value.str
  ELSE 0

\* self.selected(value) of createSelect, with an argument
selectedSet(value) ==
  LET index == MatchSelected(options, value)
  IN /\ selection' = IF index # 0 THEN {index} ELSE selection
     /\ returns' = [kind |-> "handle", vals |-> <<>>]
     /\ domOp' = <<"selected", value>>
     /\ threw' = "none"
     /\ UNCHANGED <<options, multiple, _elements, handles, removeCalled>>

\* The values of the options with the indices in sel, in document order
RECURSIVE SelectedValues(_, _, _)
SelectedValues(opts, sel, i) ==
  IF i > Len(opts) THEN <<>>
  ELSE IF i \in sel THEN <<opts[i].value>> \o SelectedValues(opts, sel, i + 1)
       ELSE SelectedValues(opts, sel, i + 1)

\* this.elt.value of a SELECT: the value of the first selected option, the
\* empty string when none is selected
SelectValue(opts, sel) ==
  LET vs == SelectedValues(opts, sel, 1)
  IN IF vs = <<>> THEN "" ELSE vs[1]

\* self.selected() of createSelect, without argument
selectedGet ==
  /\ returns' = IF multiple
                THEN [kind |-> "list", vals |-> SelectedValues(options, selection, 1)]
                ELSE [kind |-> "value", vals |-> <<SelectValue(options, selection)>>]
  /\ domOp' = <<"selected">>
  /\ threw' = "none"
  /\ UNCHANGED <<options, multiple, selection, _elements, handles,
                 removeCalled>>

\* The user picks option i in the control
userSelects(i) ==
  /\ i \in 1..Len(options)
  /\ selection' = IF multiple
                  THEN IF i \in selection THEN selection \ {i} ELSE selection \cup {i}
                  ELSE {i}
  /\ domOp' = <<"user", i>>
  /\ threw' = "none"
  /\ UNCHANGED <<options, multiple, returns, _elements, handles, removeCalled>>

SelectFrame ==
  UNCHANGED <<cueVars, wrapVars, autoplayVars, playVars, radioVars, fileVars,
              captureVars>>

DoOption ==
  /\ \E name \in Names, value \in OptionArgs : option(name, value)
  /\ SelectFrame
DoSelectedSet ==
  /\ \E value \in SelectedArgs : selectedSet(value)
  /\ SelectFrame
DoSelectedGet ==
  /\ selectedGet
  /\ SelectFrame
DoUserSelects ==
  /\ \E i \in 1..MaxOptions : userSelects(i)
  /\ SelectFrame

SelectInit ==
  /\ CueInit
  /\ MediaInit
  /\ SelectHandleInit

SelectNext ==
  \/ DoOption
  \/ DoSelectedSet
  \/ DoSelectedGet
  \/ DoUserSelects

SpecSelect == SelectInit /\ [][SelectNext]_vars

\* =========================================================== createRadio
\* Labels passed to option(name, value) of a radio handle and, as Str, its
\* values; an absent value stands for option(name).
RadioNames == {"1", "2"}
RadioValues == {Absent, Str("2")}

RECURSIVE Flatten(_, _)
Flatten(ss, n) == IF n = 0 THEN <<>> ELSE Flatten(ss, n - 1) \o ss[n]

Inputs(children) == SelectSeq(children, LAMBDA c : c.tagName = "INPUT")

\* document.querySelectorAll('input[type=radio]'): the radio inputs of the
\* page in document order.  Each container was appended to the page when
\* it was created, each input to its container.
PageRadios == Inputs(Flatten(radioChildren, Len(radioChildren)))

\* The count createRadio derives from the names of the radios on the page:
\* 0 without radios, 1 for one radio, and else 1 plus the number of places
\* where the name differs from the name of the radio before.
Count(radios) ==
  IF Len(radios) > 1
  THEN 1 + Cardinality({i \in 2..Len(radios) : radios[i - 1].name # radios[i].name})
  ELSE IF Len(radios) = 1 THEN 1 ELSE 0

\* p5.prototype.createRadio() without argument
createRadioNew ==
  /\ createNew("radio")
  /\ radioCount' = Append(radioCount, Count(PageRadios))
  /\ radioTimes' = Append(radioTimes, 0 - 1)
  /\ radioElt' = Append(radioElt, Len(radioChildren) + 1)
  /\ radioChildren' = Append(radioChildren, <<>>)
  /\ returns' = [kind |-> "handle", vals |-> <<>>]
  /\ UNCHANGED <<options, multiple, selection>>

\* Variant: the count is taken again when the option is added.
GroupNameRecount(h) == <<"defaultradio", Count(PageRadios)>>

\* 'defaultradio' + count, with the count of the closure of handle h
GroupName(h) == <<"defaultradio", radioCount[h]>>

\* times after times++ in self.option of handle h
Times(h) == radioTimes[h] + 1

\* self.option(name, value) of createRadio, with a non-empty name: the
\* INPUT and its LABEL appended to the container
RadioOption(h, name, value) ==
  <<[tagName |-> "INPUT", name |-> GroupName(h), label |-> name,
     value |-> IF value # Absent THEN value.str ELSE name, checked |-> FALSE,
     id |-> <<GroupName(h), Times(h)>>],
    [tagName |-> "LABEL", name |-> <<>>, label |-> name, value |-> "",
     checked |-> FALSE, id |-> <<GroupName(h), Times(h)>>]>>

radioOption(h, name, value) ==
  /\ Len(PageRadios) < MaxRadioInputs
  /\ radioChildren' = [radioChildren EXCEPT
                         ![radioElt[h]] = @ \o RadioOption(h, name, value)]
  /\ radioTimes' = [radioTimes EXCEPT ![h] = Times(h)]
  /\ returns' = [kind |-> "node", vals |-> <<>>]
  /\ domOp' = <<"radio.option">>
  /\ threw' = "none"
  /\ UNCHANGED <<radioCount, radioElt, options, multiple, selection, _elements,
                 handles, removeCalled, wrapped>>

\* The host's radio button groups: checking the INPUT at position k of
\* container h unchecks every other radio of the page with the same name.
Check(rc, h, k) ==
  [g \in 1..Len(rc) |->
     [i \in 1..Len(rc[g]) |->
        IF g = h /\ i = k THEN [rc[g][i] EXCEPT !.checked = TRUE]
        ELSE IF rc[g][i].tagName = "INPUT" /\ rc[g][i].name = rc[h][k].name
        THEN [rc[g][i] EXCEPT !.checked = FALSE]
        ELSE rc[g][i]]]

\* Variant: the argument is compared with the text of the option.
RadioMatchesLabel(c, value) == c.tagName = "INPUT" /\ c.label = value

\* _getInputChildrenArray keeps the children with tagName INPUT;
\* inputChildren[i].value === value
RadioMatches(c, value) == c.tagName = "INPUT" /\ c.value = value

\* for (i = 0; i < inputChildren.length; i++)
\*   if (inputChildren[i].value === value) inputChildren[i].checked = true;
RECURSIVE CheckLoop(_, _, _, _)
CheckLoop(rc, h, i, value) ==
  IF i > Len(rc[h]) THEN rc
  ELSE IF RadioMatches(rc[h][i], value)
       THEN CheckLoop(Check(rc, h, i), h, i + 1, value)
       ELSE CheckLoop(rc, h, i + 1, value)

\* The value of the first checked INPUT child, <<>> when none is checked
FirstChecked(children) ==
  LET cs == SelectSeq(Inputs(children), LAMBDA c : c.checked)
  IN IF cs = <<>> THEN <<>> ELSE <<cs[1].value>>

\* self.selected(value) and self.value(value) of createRadio with a
\* non-empty string: method is "selected" or "value"
radioSet(method, h, value) ==
  /\ radioChildren' = CheckLoop(radioChildren, radioElt[h], 1, value)
  /\ returns' = [kind |-> "handle", vals |-> <<>>]
  /\ domOp' = <<"radio.set", method, h, value>>
  /\ threw' = "none"
  /\ UNCHANGED <<radioCount, radioTimes, radioElt, options, multiple, selection, _elements,
                 handles, removeCalled, wrapped>>

\* self.selected() and self.value() of createRadio: selected() falls off
\* the end of the function when no input is checked, value() returns ''
radioGet(method, h) ==
  /\ returns' = IF FirstChecked(radioChildren[radioElt[h]]) # <<>>
                THEN [kind |-> "value",
                      vals |-> FirstChecked(radioChildren[radioElt[h]])]
                ELSE IF method = "value" THEN [kind |-> "value", vals |-> <<"">>]
                ELSE [kind |-> "undefined", vals |-> <<>>]
  /\ domOp' = <<"radio.get", method, h>>
  /\ threw' = "none"
  /\ UNCHANGED <<radioCount, radioTimes, radioElt, radioChildren, options,
                 multiple, selection, _elements, handles, removeCalled, wrapped>>

\* The user clicks the radio input at position k of container h
userChecks(h, k) ==
  /\ k \in 1..Len(radioChildren[radioElt[h]])
  /\ radioChildren[radioElt[h]][k].tagName = "INPUT"
  /\ radioChildren' = Check(radioChildren, radioElt[h], k)
  /\ domOp' = <<"radio.user">>
  /\ threw' = "none"
  /\ UNCHANGED <<radioCount, radioTimes, radioElt, returns, options, multiple,
                 selection, _elements, handles, removeCalled, wrapped>>

RadioFrame ==
  UNCHANGED <<cueVars, autoplayVars, playVars, fileVars, captureVars>>

DoCreateRadioNew ==
  /\ createRadioNew
  /\ RadioFrame
DoRadioOption ==
  /\ \E h \in 1..Len(radioCount), name \in RadioNames, value \in RadioValues :
       radioOption(h, name, value)
  /\ RadioFrame
DoRadioSet ==
  /\ \E method \in {"selected", "value"}, h \in 1..Len(radioCount),
        value \in RadioNames : radioSet(method, h, value)
  /\ RadioFrame
DoRadioGet ==
  /\ \E method \in {"selected", "value"}, h \in 1..Len(radioCount) :
       radioGet(method, h)
  /\ RadioFrame
DoUserChecks ==
  /\ \E h \in 1..Len(radioCount), k \in 1..(2 * MaxRadioInputs) : userChecks(h, k)
  /\ RadioFrame

RadioNext ==
  \/ DoCreateRadioNew
  \/ DoRadioOption
  \/ DoRadioSet
  \/ DoRadioGet
  \/ DoUserChecks

SpecRadio == Init /\ [][RadioNext]_vars

\* ------------------------------------------- select() on a radio container
\* The container of radioChildren[n] as _wrapElement sees it: a DIV and the
\* tagNames of its children.
ContainerNode(n) ==
  [tagName |-> "DIV", type |-> "",
   children |-> [k \in 1..Len(radioChildren[n]) |-> radioChildren[n][k].tagName]]

\* p5.prototype.select finds container n.  When _wrapElement takes the
\* radio branch, createRadio(new p5.Element(elt, this)) runs on a new
\* handle of the same node: count is taken again from the radios of the
\* page, times starts at -1 again, and neither the node nor the registry
\* is changed.  A container without children is wrapped as a plain handle.
selectRadio(n) ==
  LET isRadio == _wrapElement([els |-> _elements, hs |-> handles],
                              ContainerNode(n)).capability = "radio"
  IN /\ Len(radioCount) < MaxHandles + MaxWraps
     /\ select(ContainerNode(n))
     /\ radioCount' = IF isRadio THEN Append(radioCount, Count(PageRadios))
                      ELSE radioCount
     /\ radioTimes' = IF isRadio THEN Append(radioTimes, 0 - 1) ELSE radioTimes
     /\ radioElt' = IF isRadio THEN Append(radioElt, n) ELSE radioElt
     /\ returns' = [kind |-> "handle", vals |-> <<>>]
     /\ UNCHANGED <<radioChildren, options, multiple, selection>>

DoSelectRadio ==
  /\ \E n \in 1..Len(radioChildren) : selectRadio(n)
  /\ RadioFrame

RewrapNext ==
  \/ DoCreateRadioNew
  \/ DoRadioOption
  \/ DoSelectRadio

SpecRewrap == Init /\ [][RewrapNext]_vars

\* ================================================================ p5.File
\* file.type of the files handed to _load, and whether the content can be
\* parsed as what the type says
FileTypes == {"application/json", "text/xml", "text/plain", "image/png",
              "application/xml", "video/mp4", "audio/mpeg"}
FileContents == {"well-formed", "malformed"}

\* /^text\//.test(f.type)
IsText(type) == type \in {"text/xml", "text/plain"}
\* /^(video|audio)\//.test(f.type)
IsAudioVideo(type) == type \in {"video/mp4", "audio/mpeg"}

\* How _load reads a file of this type
ReadMode(type) ==
  IF IsText(type) \/ type = "application/json" THEN "readAsText"
  ELSE IF ~IsAudioVideo(type) THEN "readAsDataURL"
  ELSE "createObjectURL"

\* p5.File._load(f, callback): a FileReader is started, or for audio and
\* video the p5.File gets an object URL and the callback is called at once.
_load(type, content) ==
  /\ Len(files) < MaxFiles
  /\ files' = Append(files,
       IF ReadMode(type) = "createObjectURL"
       THEN [type |-> type, content |-> content, state |-> "done",
             calls |-> 1, data |-> "object URL"]
       ELSE [type |-> type, content |-> content, state |-> "reading",
             calls |-> 0, data |-> "none"])
  /\ domOp' = <<"_load", Len(files) + 1>>
  /\ threw' = "none"

\* p5file.data as reader.onload sets it, "throws" when JSON.parse throws
LoaderData(type, content) ==
  IF type = "application/json"
  THEN IF content = "well-formed" THEN "parsed JSON" ELSE "throws"
  ELSE IF type = "text/xml" THEN "p5.XML"
  ELSE IF ReadMode(type) = "readAsText" THEN "text" ELSE "data URL"

\* reader.onload of file i runs: the read has succeeded
onload(i) ==
  /\ files[i].state = "reading"
  /\ LET data == LoaderData(files[i].type, files[i].content)
     IN IF data = "throws"
        THEN /\ files' = [files EXCEPT ![i].state = "done"]
             /\ threw' = "SyntaxError"
        ELSE /\ files' = [files EXCEPT ![i].state = "done", ![i].calls = @ + 1,
                                       ![i].data = data]
             /\ threw' = "none"
  /\ domOp' = <<"onload", i>>

\* The read of file i fails: the reader has no onerror handler
onerror(i) ==
  /\ files[i].state = "reading"
  /\ files' = [files EXCEPT ![i].state = "failed"]
  /\ domOp' = <<"onerror", i>>
  /\ threw' = "none"

FileFrame ==
  UNCHANGED <<cueVars, wrapVars, autoplayVars, playVars, selectVars,
              radioVars, captureVars, _elements, handles, removeCalled>>

DoLoad ==
  /\ \E type \in FileTypes, content \in FileContents : _load(type, content)
  /\ FileFrame
DoOnload ==
  /\ \E i \in 1..Len(files) : onload(i)
  /\ FileFrame
DoOnerror ==
  /\ \E i \in 1..Len(files) : onerror(i)
  /\ FileFrame

FileNext ==
  \/ DoLoad
  \/ DoOnload
  \/ DoOnerror

SpecFile == Init /\ [][FileNext]_vars

\* ========================================================= createCapture
Hosts == {"native", "legacy", "none"}

\* The polyfill run when dom.js is loaded: navigator.mediaDevices becomes
\* an object if it was undefined, and getUserMedia a wrapper of the legacy
\* function if it was undefined.
Polyfill(host) == IF host = "native" THEN "native" ELSE "polyfill"

CaptureInit ==
  /\ CueInit
  /\ MediaInit
  /\ DomInit
  /\ options = <<>> /\ multiple = FALSE /\ selection = {}
  /\ returns = [kind |-> "none", vals |-> <<>>]
  /\ radioCount = <<>> /\ radioTimes = <<>> /\ radioElt = <<>>
  /\ radioChildren = <<>>
  /\ files = <<>>
  /\ hostCapture \in Hosts
  /\ getUserMedia = Polyfill(hostCapture)
  /\ captures = <<>>
  /\ logged = 0

\* p5.prototype.createCapture
createCapture ==
  IF getUserMedia # "undefined"
  THEN /\ addElement("mediaCapture")
       /\ captures' = Append(captures, "pending")
       /\ UNCHANGED <<hostCapture, getUserMedia, logged>>
  ELSE /\ threw' = "getUserMedia not supported in this browser"
       /\ domOp' = <<"createCapture">>
       /\ UNCHANGED <<_elements, handles, removeCalled, captureVars>>

\* function(stream) { elt.srcObject = stream } runs: the host has granted
\* a stream
captureResolved(h) ==
  /\ captures[h] = "pending"
  /\ hostCapture # "none"
  /\ streamResolved(h)
  /\ captures' = [captures EXCEPT ![h] = "resolved"]
  /\ UNCHANGED <<hostCapture, getUserMedia, logged>>

\* function(e) { console.log(e) } runs: the host has refused, or the
\* polyfill has found no legacy function
captureRejected(h) ==
  /\ captures[h] = "pending"
  /\ captures' = [captures EXCEPT ![h] = "rejected"]
  /\ logged' = logged + 1
  /\ domOp' = <<"capture rejected", h>>
  /\ threw' = "none"
  /\ UNCHANGED <<hostCapture, getUserMedia, _elements, handles, removeCalled>>

CaptureFrame ==
  UNCHANGED <<cueVars, wrapVars, autoplayVars, playVars, selectVars,
              radioVars, fileVars>>

DoCreateCapture ==
  /\ createCapture
  /\ CaptureFrame
DoCaptureResolved ==
  /\ \E h \in 1..Len(captures) : captureResolved(h)
  /\ CaptureFrame
DoCaptureRejected ==
  /\ \E h \in 1..Len(captures) : captureRejected(h)
  /\ CaptureFrame

CaptureNext ==
  \/ DoCreateCapture
  \/ DoCaptureResolved
  \/ DoCaptureRejected
  \/ DoChanged
  \/ DoRemove

SpecCapture == CaptureInit /\ [][CaptureNext]_vars

\* ===================================================== cues and remove()
\* The cue scheduler of a media handle that is in the registry: the handle
\* is handle 1, its stream may resolve, and remove() may be called on it.
CueRemoveNext ==
  \/ DoAddCue
  \/ DoClearCues
  \/ DoTimeUpdate
  \/ DoStreamResolved
  \/ DoRemove

SpecCueRemove == AutoplayInit /\ [][CueRemoveNext]_vars

\* ================================================================ claims
\* The cue of the list that carries the id.
CueById(id) == _cues[CHOOSE k \in 1..Len(_cues) : _cues[k].id = id]

\* Indices of the invocations of the last operation made for the id.
Hits(id) == {j \in 1..Len(calls) : calls[j].id = id}

\* Place of an id in the order in which addCue handed the ids out.
AddOrder(id) == CHOOSE k \in 1..Len(returned) : returned[k] = id

\* The last operation was a time update handled by _onTimeUpdate.
Handled == window # <<>>

\* C1: a handled time update with watermark prev and position cur invokes,
\* exactly once and with the payload given to addCue among the arguments, the
\* callback of every listed cue with prev < time <= cur, and invokes nothing
\* else.
C1_FiringRule ==
  Handled =>
    /\ \A k \in 1..Len(_cues) :
         LET c == _cues[k]
         IN IF window[1] < c.time /\ c.time <= window[2]
            THEN /\ Cardinality(Hits(c.id)) = 1
                 /\ \A j \in Hits(c.id) :
                      /\ calls[j].callback = c.callback
                      /\ \E a \in DOMAIN calls[j].args : calls[j].args[a] = c.val
            ELSE Hits(c.id) = {}
    /\ FiredIds(calls) \subseteq CueIds(_cues)

\* Two of three cues, registered with different callbacks and payloads, were
\* invoked by one update and the third was not.
C1_Witness ==
  /\ Handled
  /\ Len(_cues) = 3
  /\ Len(calls) = 2
  /\ calls[1].callback # calls[2].callback
  /\ calls[1].args # calls[2].args

\* C2 as stated: while every handled update has moved forward from watermark
\* 0, no cue is invoked twice, and every cue added before the first update
\* has been invoked exactly when the watermark has reached its trigger time.
C2_Original ==
  forwardFrom >= 0 =>
    /\ refired = {}
    /\ \A k \in 1..Len(_cues) :
         _cues[k].id < forwardFrom =>
           (_cues[k].id \in hasFired <=> _cues[k].time <= _prevTime)

\* C2 (amended): as above for the cues whose trigger time is above 0; a cue
\* at trigger time 0 is not invoked.
C2_ForwardOnce ==
  forwardFrom >= 0 =>
    /\ refired = {}
    /\ \A k \in 1..Len(_cues) :
         _cues[k].id < forwardFrom =>
           IF _cues[k].time > 0
           THEN _cues[k].id \in hasFired <=> _cues[k].time <= _prevTime
           ELSE _cues[k].id \notin hasFired

\* Cues at 0.5, 1.0 and 2.5 s; the forward run has gone from 1.2 s to 2.6 s:
\* that update invoked the cue at 2.5 s only, the other two had fired before.
C2_Witness ==
  /\ forwardFrom = 3
  /\ Len(_cues) = 3
  /\ <<_cues[1].time, _cues[2].time, _cues[3].time>> = <<5, 10, 25>>
  /\ window = <<12, 26>>
  /\ FiredIds(calls) = {_cues[3].id}
  /\ hasFired = CueIds(_cues)

\* C3: a handled time update leaves the watermark equal to the position it
\* read, whether or not a cue fired; when that position is below the old
\* watermark it invokes nothing and leaves the cue list as it was.
C3_WatermarkFollows ==
  [][window' # <<>> =>
       /\ _prevTime' = currentTime'
       /\ currentTime' < _prevTime => (calls' = <<>> /\ _cues' = _cues)]_vars

\* A backward update from 1.2 s to 0.3 s over a cue at 1.0 s that had fired.
C3_Witness ==
  /\ window = <<12, 3>>
  /\ _prevTime = 3
  /\ \E k \in 1..Len(_cues) : _cues[k].time = 10 /\ _cues[k].id \in hasFired

\* C4: in the handled update that follows a backward update to position p,
\* a cue that had fired before is invoked again exactly when its trigger
\* time lies in (p, cur].
C4_RefireInWindow ==
  [][(Handled /\ window[2] < window[1] /\ window' # <<>>) =>
       \A k \in 1..Len(_cues) :
         _cues[k].id \in hasFired =>
           (_cues[k].id \in FiredIds(calls') <=>
              (currentTime < _cues[k].time /\ _cues[k].time <= currentTime'))]_vars

\* After the watermark was lowered to 0.3 s, the update to 1.1 s has invoked
\* the cue at 1.0 s a second time.
C4_Witness ==
  /\ window = <<3, 11>>
  /\ forwardFrom = Backward
  /\ \E k \in 1..Len(_cues) : _cues[k].time = 10 /\ _cues[k].id \in refired

\* C5: the invocations of one update are in the order in which their cues
\* were added.
C5_InsertionOrder ==
  \A j \in 1..Len(calls), k \in 1..Len(calls) :
    j < k => AddOrder(calls[j].id) < AddOrder(calls[k].id)

\* After a removeCue, one update invoked two cues, the later trigger time
\* first.
C5_Witness ==
  /\ Len(calls) = 2
  /\ Len(_cues) < Len(returned)
  /\ clearedIds = {}
  /\ CueById(calls[1].id).time > CueById(calls[2].id).time

\* C6: the handle is subscribed to time-update notifications exactly when
\* its cue list is not empty.
C6_ArmedIffCues ==
  (ontimeupdate = "_onTimeUpdate") <=> (Len(_cues) > 0)

\* Cues were added and removed one by one, without clearCues, until none was
\* left: the handle is idle again.
C6_Witness ==
  /\ _cueIDCounter >= 2
  /\ clearedIds = {}
  /\ _cues = <<>>
  /\ ontimeupdate = "null"

\* C7: addCue hands out strictly increasing ids, through any interleaving
\* with removeCue and clearCues, and the listed cues carry pairwise different
\* ids, each handed out by addCue.
C7_FreshIds ==
  /\ \A j \in 1..Len(returned), k \in 1..Len(returned) :
       j < k => returned[j] < returned[k]
  /\ \A j \in 1..Len(_cues), k \in 1..Len(_cues) :
       j # k => _cues[j].id # _cues[k].id
  /\ CueIds(_cues) \subseteq {returned[k] : k \in 1..Len(returned)}

\* addCue was called again after clearCues dropped a cue and after another
\* cue was removed.
C7_Witness ==
  /\ clearedIds # {}
  /\ Len(returned) = 3
  /\ Len(_cues) = 1
  /\ _cues[1].id \notin clearedIds
  /\ Cardinality(clearedIds) = 1

\* C8: removeCue(id) leaves exactly the cues with another id, in their
\* order, so an id that is not listed changes nothing; it unsubscribes when
\* the list is left empty and keeps the subscription otherwise; an id that
\* left the list is not listed again, and only listed cues are invoked.
C8_RemoveExactly ==
  /\ [][\A id \in 0..MaxCueID :
          (returned' = returned /\ window' = <<>> /\ removeCue(id)) =>
            /\ _cues' = SelectSeq(_cues, LAMBDA c : c.id # id)
            /\ ontimeupdate' = IF Len(_cues') = 0 THEN "null" ELSE ontimeupdate]_vars
  /\ [][\A id \in CueIds(_cues') \ CueIds(_cues) :
          \A k \in 1..Len(returned) : returned[k] # id]_vars
  /\ [](FiredIds(calls) \subseteq CueIds(_cues))

\* The middle one of three cues was removed, and an update then invoked the
\* two cues that were left.
C8_Witness ==
  /\ Len(_cues) = 2
  /\ Len(returned) = 3
  /\ clearedIds = {}
  /\ <<_cues[1].id, _cues[2].id>> = <<returned[1], returned[3]>>
  /\ Len(calls) = 2

\* C9: clearCues empties the cue list and unsubscribes, whatever the state
\* before; a cue it dropped is never listed or invoked again; the first
\* addCue on an empty list subscribes.
C9_ClearCues ==
  /\ [][clearCues => (_cues' = <<>> /\ ontimeupdate' = "null")]_vars
  /\ [](clearedIds \cap (CueIds(_cues) \cup FiredIds(calls)) = {})
  /\ [](_cues = <<>> => calls = <<>>)
  /\ [][(_cues = <<>> /\ DoAddCue) => ontimeupdate' = "_onTimeUpdate"]_vars

\* clearCues dropped cues that had been added; a cue added after it has been
\* invoked by an update.
C9_Witness ==
  /\ clearedIds # {}
  /\ Len(calls) = 1
  /\ ontimeupdate = "_onTimeUpdate"

\* C10 as documented for addCue: the callback of a fired cue receives the
\* trigger time as first and the value given to addCue as second parameter.
C10_TimeThenValue ==
  \A j \in 1..Len(calls) :
    calls[j].args = <<CueById(calls[j].id).time, CueById(calls[j].id).val>>

\* ------------------------------------------------------- registry claims
Registered(els) == {els[k] : k \in 1..Len(els)}

\* C11: after a removeElements() that returned, every handle that was in
\* the registry and is not a canvas is out of the registry and its node is
\* detached, and every canvas handle that was in the registry is still in
\* it and attached.
C11_RemoveElementsAll ==
  [][(domOp' = <<"removeElements">> /\ threw' = "none") =>
       \A h \in Registered(_elements) :
         IF handles[h].kind = "canvas"
         THEN h \in Registered(_elements') /\ handles'[h].attached
         ELSE h \notin Registered(_elements') /\ ~handles'[h].attached]_vars

\* C12: remove() does not throw on any kind of handle, and a remove() on a
\* handle on which remove() was called before changes neither the registry
\* nor any handle.
C12_RemoveTwice ==
  [][\A h \in 1..Len(handles) :
       domOp' = <<"remove", h>> =>
         /\ threw' = "none"
         /\ h \in removeCalled => (_elements' = _elements /\ handles' = handles)]_vars

\* C13: after remove() on handle h, h is not in the registry, its node has
\* no parent, no handler of its _events table is attached to the node, no
\* stream of it is live, and the other handles and their registry entries
\* are as before.
C13_RemoveContract ==
  [][\A h \in 1..Len(handles) :
       domOp' = <<"remove", h>> =>
         /\ h \notin Registered(_elements')
         /\ ~handles'[h].attached
         /\ handles'[h].listeners \cap handles'[h].events = {}
         /\ handles'[h].srcObject # "live"
         /\ Registered(_elements') \ {h} = Registered(_elements) \ {h}
         /\ \A o \in (1..Len(handles)) \ {h} : handles'[o] = handles[o]]_vars

\* ---------------------------------------------------------- wrap claims
\* Capability the decision order gives a node: checkbox input, then
\* audio/video, then select, then a container with at least one child whose
\* children are all INPUT or LABEL, then plain.
Classified(w) ==
  LET n == w.node
      c == w.capability
      isCheckbox == n.tagName = "INPUT" /\ n.type = "checkbox"
      isMedia == n.tagName \in {"VIDEO", "AUDIO"}
      isSelect == n.tagName = "SELECT"
      isRadio == /\ Len(n.children) >= 1
                 /\ \A k \in 1..Len(n.children) : n.children[k] \in {"INPUT", "LABEL"}
  IN /\ isCheckbox => c = "checkbox"
     /\ (~isCheckbox /\ isMedia) => c = "media"
     /\ (~isCheckbox /\ ~isMedia /\ isSelect) => c = "select"
     /\ (~isCheckbox /\ ~isMedia /\ ~isSelect /\ isRadio) => c = "radio"
     /\ (~isCheckbox /\ ~isMedia /\ ~isSelect /\ ~isRadio) => c = "plain"
     /\ Len(n.children) = 0 => c # "radio"
     /\ isMedia => c = "media"
     /\ isSelect => c = "select"

\* C19: every node wrapped by _wrapElement gets the capability of the first
\* match in the order checkbox, media, select, radio group, plain; a node
\* without children is never a radio group, and an audio, video or select
\* node is classified by its tag whatever its children are.
C19_DecisionOrder ==
  \A k \in 1..Len(wrapped) : Classified(wrapped[k])

C19_Witness ==
  /\ domOp = <<"selectAll">>
  /\ Len(wrapped) = 3
  /\ wrapped[1].capability = "checkbox"
  /\ wrapped[2].capability = "plain"
  /\ wrapped[3].capability = "select"
  /\ wrapped[3].node.children = <<"INPUT">>

\* C20: select() and selectAll() leave the registry and every handle as
\* they were, whatever nodes they wrap, and the registry grows only in a
\* creation call.
C20_WrapKeepsRegistry ==
  [][/\ domOp' \in {<<"select">>, <<"selectAll">>} =>
          (_elements' = _elements /\ handles' = handles)
     /\ Len(_elements') > Len(_elements) => domOp'[1] = "create"]_vars

C20_Witness ==
  /\ domOp = <<"selectAll">>
  /\ Len(wrapped) = 2
  /\ wrapped[1].capability = "select"
  /\ wrapped[2].capability = "radio"
  /\ Len(_elements) = 1

\* ------------------------------------------------------ autoplay claims
RECURSIVE SumSignals(_, _)
SumSignals(ws, n) == IF n = 0 THEN 0 ELSE ws[n].signals + SumSignals(ws, n - 1)

\* Autoplay-failure signals emitted for the handle so far
Signals == SumSignals(watchdogs, Len(watchdogs))

\* remove() has returned on the media handle
Removed == ~handles[1].attached

\* C14: once remove() has returned on the media handle, no autoplay-failure
\* signal is emitted for it any more, whether the watchdog's timer was armed
\* or it was still waiting for 'canplay' at the removal.
C14_RemoveCancelsWatchdog ==
  [][Removed => Signals' = Signals]_vars

\* C15: a watchdog emits at most one signal; once 'play' has been observed
\* before its timeout the timer is cleared and it never emits; once its
\* timeout has run it has emitted exactly once and a later 'play' changes
\* neither that nor its timer; a watchdog never goes back to armed; and an
\* armed watchdog ends in one of the two outcomes.
C15_OneShot ==
  /\ [](\A i \in 1..Len(watchdogs) :
          LET w == watchdogs[i]
          IN /\ w.signals <= 1
             /\ w.timer = "fired" <=> w.signals = 1
             /\ ~w.listening => w.timer \in {"cleared", "fired"}
             /\ w.timer = "cleared" => ~w.listening)
  /\ [][\A i \in 1..Len(watchdogs) :
          /\ watchdogs[i].timer # "pending" => watchdogs'[i] \in
               {watchdogs[i], [watchdogs[i] EXCEPT !.listening = FALSE]}
          /\ watchdogs[i].timer = "pending" => watchdogs'[i] \in
               {watchdogs[i],
                [timer |-> "cleared", listening |-> FALSE, signals |-> 0],
                [timer |-> "fired", listening |-> TRUE, signals |-> 1]}]_vars
  /\ \A i \in 1..MaxWatchdogs :
       (Len(watchdogs) >= i /\ watchdogs[i].timer = "pending")
         ~> (Len(watchdogs) >= i /\ watchdogs[i].timer \in {"cleared", "fired"})

C15_Witness ==
  /\ Len(watchdogs) = 2
  /\ watchdogs[1] = [timer |-> "fired", listening |-> FALSE, signals |-> 1]
  /\ watchdogs[2] = [timer |-> "cleared", listening |-> FALSE, signals |-> 0]

\* C16: an autoplay(true) call made while the attribute is absent or was
\* set by autoplay(false) schedules exactly one watchdog, armed at once when
\* readyState is 4 and else waiting for 'canplay'; an autoplay(true) call
\* while autoplay is on, and autoplay(false), schedule none.
C16_OffToOnSchedules ==
  [][/\ (domOp' = <<"autoplay", TRUE>> /\ autoplayAttr \in {"null", "false"}) =>
          IF readyState = 4
          THEN Len(watchdogs') = Len(watchdogs) + 1 /\ canplay' = canplay
          ELSE Len(watchdogs') = Len(watchdogs) /\ canplay' = canplay + 1
     /\ (domOp' = <<"autoplay", TRUE>> /\ autoplayAttr = "true") =>
          (watchdogs' = watchdogs /\ canplay' = canplay)
     /\ domOp' = <<"autoplay", FALSE>> =>
          (watchdogs' = watchdogs /\ canplay' = canplay)]_vars

\* ------------------------------------------------------ playback claims
\* C17: speed(v) before the metadata has loaded leaves elt.playbackRate as
\* it is; when 'loadedmetadata' arrives with a preset buffered,
\* elt.playbackRate becomes the last buffered value; and after
\* 'loadedmetadata' the handle has loadedmetadata true and no preset.
C17_PresetApplied ==
  [][/\ (domOp'[1] = "speed" /\ ~loadedmetadata) => playbackRate' = playbackRate
     /\ (domOp' = <<"loadedmetadata">> /\ presetPlaybackRate # <<>>) =>
          playbackRate' = presetPlaybackRate[1]
     /\ domOp' = <<"loadedmetadata">> =>
          (loadedmetadata' /\ presetPlaybackRate' = <<>>)]_vars

\* C18: play() returns without throwing; a rejection of its promise with
\* NotAllowedError issues the autoplay warning for the source of this
\* handle, any other rejection is logged with console.error; play() and the
\* rejection leave the cue list, the watermark and the callbacks as they are.
C18_PlayRejection ==
  [][/\ domOp' = <<"call", "play">> =>
          (threw' = "none" /\ _cues' = _cues /\ _prevTime' = _prevTime)
     /\ domOp'[1] = "rejected" =>
          /\ _cues' = _cues /\ _prevTime' = _prevTime /\ calls' = calls
          /\ reported' = IF domOp'[2] = "NotAllowedError"
                         THEN "_friendlyAutoplayError(src)"
                         ELSE "console.error"]_vars

\* -------------------------------------------------------- select claims
Labelled(opts, name) == {i \in 1..Len(opts) : opts[i].label = name}

FirstLabelled(opts, name) ==
  CHOOSE i \in Labelled(opts, name) : \A j \in Labelled(opts, name) : i <= j

\* The list opts without its element k
Without(opts, k) ==
  [i \in 1..(Len(opts) - 1) |-> IF i < k THEN opts[i] ELSE opts[i + 1]]

\* C21: option(name, false) on a select with an option labelled name takes
\* out the first option labelled name and leaves every other option, later
\* ones with the same label included, in its order; so when one option was
\* labelled name none is afterwards, and a following option(name, value)
\* appends a new option.
C21_OptionFalseRemovesFirst ==
  [][\A name \in Names :
       /\ (domOp' = <<"option", name, False>> /\ Labelled(options, name) # {}) =>
            /\ options' = Without(options, FirstLabelled(options, name))
            /\ Cardinality(Labelled(options', name)) =
                 Cardinality(Labelled(options, name)) - 1
       /\ \A value \in OptionArgs \ {Absent, False} :
            (domOp' = <<"option", name, value>> /\ Labelled(options, name) = {}) =>
              options' = Append(options, [label |-> name, value |-> value.str])]_vars

C21_Witness ==
  /\ domOp = <<"option", "a", Str("y")>>
  /\ options = <<[label |-> "a", value |-> "y"]>>
  /\ Len(_elements) = 3

\* C22: option(name, value) with a value that is not false, on a select
\* with an option labelled name, sets the value of the first such option to
\* value, sets its label to value too exactly when its label and value were
\* the same before, and leaves every other option and the number of
\* options as they were.
C22_OptionUpdatesFirst ==
  [][\A name \in Names, value \in OptionArgs \ {Absent, False} :
       (domOp' = <<"option", name, value>> /\ Labelled(options, name) # {}) =>
         LET k == FirstLabelled(options, name)
         IN /\ Len(options') = Len(options)
            /\ \A i \in (1..Len(options)) \ {k} : options'[i] = options[i]
            /\ options'[k].value = value.str
            /\ options'[k].label = IF options[k].label = options[k].value
                                   THEN value.str ELSE options[k].label]_vars

C22_Witness ==
  /\ domOp = <<"option", "x", Str("a")>>
  /\ options = <<[label |-> "a", value |-> "x"], [label |-> "a", value |-> "a"]>>

\* C23: option(name) or option(name, value) on a select without an option
\* labelled name appends one option labelled name, with value value when a
\* second argument was passed and name otherwise, after the options that
\* were there, which stay as they were.
C23_OptionAppends ==
  [][\A name \in Names, value \in OptionArgs :
       (domOp' = <<"option", name, value>> /\ Labelled(options, name) = {}) =>
         /\ Len(options') = Len(options) + 1
         /\ \A i \in 1..Len(options) : options'[i] = options[i]
         /\ options'[Len(options')].label = name
         /\ options'[Len(options')].value =
              IF value = Absent THEN name ELSE value.str]_vars

C23_Witness ==
  /\ domOp = <<"option", "x", Str("y")>>
  /\ options = <<[label |-> "a", value |-> "a"], [label |-> "x", value |-> "y"]>>

\* The indices in sel in ascending order
InOrder(sel) ==
  CHOOSE q \in [1..Cardinality(sel) -> sel] :
    \A i, j \in 1..Cardinality(sel) : i < j => q[i] < q[j]

\* C24: selected(v) returns the handle and leaves exactly one option
\* selected, one whose value is the string form of v, when such an option
\* exists, and the selection as it was when none does; selected() returns
\* the values of the selected options in order on a multiple select and the
\* value of the selected option otherwise; so on a single select selected()
\* right after selected(v) returns the string form of v when an option has
\* that value.
C24_SelectedRoundTrip ==
  [][/\ \A v \in SelectedArgs :
          domOp' = <<"selected", v>> =>
            /\ returns'.kind = "handle"
            /\ options' = options
            /\ IF \E i \in 1..Len(options) : options[i].value = v.str
               THEN /\ Cardinality(selection') = 1
                    /\ \A i \in selection' : options[i].value = v.str
               ELSE selection' = selection
     /\ domOp' = <<"selected">> =>
          /\ selection' = selection /\ options' = options
          /\ multiple =>
               /\ returns'.kind = "list"
               /\ Len(returns'.vals) = Cardinality(selection)
               /\ \A i \in 1..Cardinality(selection) :
                    returns'.vals[i] = options[InOrder(selection)[i]].value
          /\ ~multiple =>
               /\ returns'.kind = "value"
               /\ \A i \in selection : returns'.vals = <<options[i].value>>
     /\ \A v \in SelectedArgs :
          (/\ domOp = <<"selected", v>> /\ domOp' = <<"selected">> /\ ~multiple
           /\ \E i \in 1..Len(options) : options[i].value = v.str) =>
            returns'.vals = <<v.str>>]_vars

C24_Witness ==
  /\ domOp = <<"selected">>
  /\ ~multiple
  /\ returns = [kind |-> "value", vals |-> <<"false">>]
  /\ options = <<[label |-> "a", value |-> "a"], [label |-> "x", value |-> "false"]>>
  /\ selection = {2}

\* --------------------------------------------------------- radio claims
InputsOf(h) == {k \in 1..Len(radioChildren[h]) : radioChildren[h][k].tagName = "INPUT"}

C26_GroupsIsolated ==
  \A g, h \in 1..Len(radioChildren) :
    g # h => \A k \in InputsOf(g), l \in InputsOf(h) :
               radioChildren[g][k].name # radioChildren[h][l].name

\* The checked inputs of container h, by position
CheckedOf(h) == {k \in InputsOf(h) : radioChildren[h][k].checked}

\* C27: value() returns the empty string and selected() returns undefined
\* while no input of the handle is checked, and both return the value of
\* the checked input otherwise; selected(v) and value(v) with v the value
\* of an input of the handle return the handle and leave an input with
\* value v as the only checked input of the handle; with another v nothing
\* changes; labels are never checked.
C27_RadioValue ==
  [][\A h \in 1..Len(radioCount) :
       /\ \A method \in {"selected", "value"} :
            domOp' = <<"radio.get", method, h>> =>
              /\ radioChildren' = radioChildren
              /\ CheckedOf(h) = {} =>
                   returns' = IF method = "value"
                              THEN [kind |-> "value", vals |-> <<"">>]
                              ELSE [kind |-> "undefined", vals |-> <<>>]
              /\ \A k \in CheckedOf(h) :
                   returns' = [kind |-> "value", vals |-> <<radioChildren[h][k].value>>]
       /\ \A method \in {"selected", "value"}, v \in RadioNames :
            domOp' = <<"radio.set", method, h, v>> =>
              /\ returns'.kind = "handle"
              /\ Len(radioChildren'[h]) = Len(radioChildren[h])
              /\ \A k \in 1..Len(radioChildren[h]) :
                   radioChildren'[h][k].tagName = "LABEL" =>
                     radioChildren'[h][k] = radioChildren[h][k]
              /\ IF \E k \in InputsOf(h) : radioChildren[h][k].value = v
                 THEN \E k \in InputsOf(h) :
                        /\ radioChildren'[h][k].value = v
                        /\ {l \in InputsOf(h) : radioChildren'[h][l].checked} = {k}
                 ELSE radioChildren' = radioChildren]_vars

C27_Witness ==
  /\ domOp = <<"radio.get", "value", 1>>
  /\ returns = [kind |-> "value", vals |-> <<"2">>]
  /\ Cardinality(InputsOf(1)) = 2
  /\ radioChildren[1][1].label = "1"
  /\ radioChildren[1][1].value = "2"
  /\ radioChildren[1][1].checked

\* ---------------------------------------------------------- file claims
\* C28: for every file passed to _load whose handling has ended, whatever
\* the outcome of the read, the callback has been invoked exactly once with
\* data by type: parsed JSON for application/json, p5.XML for text/xml,
\* text for other text types, a data URL for other types that are not
\* audio or video, and an object URL for audio and video, for which the
\* callback has run when _load returns.
C28_OneCallbackPerFile ==
  \A i \in 1..Len(files) :
    LET f == files[i]
    IN /\ f.calls <= 1
       /\ f.type \in {"video/mp4", "audio/mpeg"} => f.state = "done"
       /\ f.state # "reading" =>
            /\ f.calls = 1
            /\ f.data = IF f.type = "application/json" THEN "parsed JSON"
                        ELSE IF f.type = "text/xml" THEN "p5.XML"
                        ELSE IF f.type = "text/plain" THEN "text"
                        ELSE IF f.type \in {"video/mp4", "audio/mpeg"} THEN "object URL"
                        ELSE "data URL"

\* -------------------------------------------------------- capture claims
\* C29: on a host without device capture createCapture throws and neither
\* creates nor registers a handle; when the acquisition of the stream is
\* rejected the reason is logged once and nothing is thrown.
C29_CaptureUnsupportedThrows ==
  [][/\ (domOp'[1] \in {"create", "createCapture"} /\ hostCapture = "none") =>
          (threw' # "none" /\ handles' = handles /\ _elements' = _elements)
     /\ domOp'[1] = "capture rejected" =>
          (threw' = "none" /\ logged' = logged + 1 /\ handles' = handles)]_vars

\* ------------------------------------------------- cues after remove()
\* C30: once remove() has returned on a media handle, its time-update
\* handler is unsubscribed and a time update invokes no cue callback.
C30_RemovedIsIdle ==
  [][Removed => (ontimeupdate' = "null" /\ calls' = <<>>)]_vars

\* ----------------------------------------------- registry contents claim
\* C31: every entry of the registry is a handle that a creation call
\* produced and that has not been removed; no entry is a raw host node
\* (0) and no entry belongs to a handle whose node is detached.
C31_RegistryHoldsLiveHandles ==
  \A k \in 1..Len(_elements) :
    /\ _elements[k] \in 1..Len(handles)
    /\ handles[_elements[k]].attached

\* ------------------------------------------------ re-wrapped radio claim
\* C32: an option added through any handle of a container, re-wrapped
\* handles included, gets the group name of the inputs already in the
\* container; select() on a container adds nothing to the node and to the
\* registry; and two select() calls in a row on the same container yield
\* handles with the same group name.
C32_RewrapSameContract ==
  [][/\ domOp' = <<"radio.option">> =>
          \A n \in 1..Len(radioChildren') :
            \A k, l \in 1..Len(radioChildren'[n]) :
              (radioChildren'[n][k].tagName = "INPUT" /\
               radioChildren'[n][l].tagName = "INPUT") =>
                radioChildren'[n][k].name = radioChildren'[n][l].name
     /\ domOp' = <<"select">> =>
          /\ radioChildren' = radioChildren
          /\ _elements' = _elements
          /\ (domOp = <<"select">> /\ wrapped' = wrapped /\
              Len(radioCount') = Len(radioCount) + 1 /\ Len(radioCount) > 0 /\
              radioElt'[Len(radioElt')] = radioElt[Len(radioElt)]) =>
                radioCount'[Len(radioCount')] = radioCount[Len(radioCount)]]_vars

\* ----------------------------------------------------------- loop claim
\* C33: after loop() the loop flag is on and elt.play() has been called;
\* after noLoop() the loop flag is off, and noLoop() neither starts nor
\* stops playback nor moves the position; media that reaches its end after
\* noLoop() stops, and the onended callback runs with the handle.
C33_LoopToggles ==
  [][/\ domOp' = <<"call", "loop">> =>
          (LoopFlag(loopAttr') /\ promises' = promises + 1)
     /\ domOp' = <<"call", "noLoop">> =>
          /\ ~LoopFlag(loopAttr')
          /\ playing' = playing
          /\ promises' = promises
          /\ currentTime' = currentTime
     /\ (loopAttr = "false" /\ domOp'[1] \in {"looped", "ended"}) =>
          (domOp' = <<"ended", "_onended(self)">> /\ ~playing')]_vars

\* ------------------------------------------- removeCue inside a callback
\* C34: in a handled time update, every cue that was listed when the
\* update began and whose time lies in the window of the update is
\* invoked in that update, also when callbacks of the update call
\* removeCue on their own id or on the id of a cue added earlier.
C34_RemoveInCallbackKeepsOthers ==
  [][window' # <<>> =>
       \A k \in 1..Len(_cues) :
         InWindow(_prevTime, _cues[k].time, currentTime') =>
           _cues[k].id \in FiredIds(calls')]_vars

\* ------------------------------------------------------- cue at time 0
\* C35: a cue whose time is 0 is invoked by no time update, whatever the
\* positions reported: no invocation of the last operation belongs to a
\* listed cue with time 0, and no listed cue with time 0 has ever been
\* invoked.
C35_CueAtZeroNeverFires ==
  \A k \in 1..Len(_cues) :
    _cues[k].time = 0 =>
      /\ _cues[k].id \notin hasFired
      /\ \A j \in 1..Len(calls) : calls[j].id # _cues[k].id

\* A cue at 0 is listed, a cue at 0.5 has been invoked, the position has
\* gone back to 0 from the end and forward again.
C35_Witness ==
  /\ \E k \in 1..Len(_cues) : _cues[k].time = 0
  /\ \E k \in 1..Len(_cues) : _cues[k].time = 5 /\ _cues[k].id \in refired
  /\ forwardFrom = Backward
  /\ window = <<0, 6>>

\* ------------------------------------------- option(name) called twice
\* C36: a second option(name) right after a first one changes nothing,
\* and after it exactly one option is labelled name and its value is name.
C36_OptionIdempotent ==
  [][\A name \in Names :
       (domOp = <<"option", name, Absent>> /\ domOp' = <<"option", name, Absent>>) =>
         /\ options' = options
         /\ Cardinality(Labelled(options', name)) = 1
         /\ \A i \in Labelled(options', name) : options'[i].value = name]_vars

\* ------------------------------- option(name, false) without such option
\* C37: option(name, false) on a select without an option labelled name
\* leaves the options and the registry as they were.
C37_OptionFalseAbsentIsNoOp ==
  [][\A name \in Names :
       (domOp' = <<"option", name, False>> /\ Labelled(options, name) = {}) =>
         (options' = options /\ _elements' = _elements)]_vars

\* ------------------------------------------------------ media.src claim
\* C38: after the assignment media.src = v the media node has exactly one
\* SOURCE child, whose src is v, and a read of media.src that follows
\* returns v.
C38_SrcSetterReplaces ==
  [][\A v \in SrcValues :
       /\ domOp' = <<"src.set", v>> => sources' = <<Resolve(v)>>
       /\ (domOp = <<"src.set", v>> /\ domOp'[1] = "src.get") =>
            (threw' = "none" /\ domOp' = <<"src.get", v>>)]_vars

\* --------------------------------------------- wrap of a created handle
\* The capability a creation call attaches to the handle it returns
Attached(kind) == IF kind \in MediaKinds THEN "media" ELSE kind

\* C39: when select() wraps the node of a handle that createCheckbox,
\* createSelect, createRadio or createVideo / createAudio returned, with
\* any number of options added since, the new handle gets the capability
\* the creation call attached.
C39_WrapOfCreated ==
  [][domOp' = <<"select">> =>
       \A h \in 1..Len(handles) :
         handles[h].elt = wrapped'[1].node =>
           wrapped'[1].capability = Attached(handles[h].kind)]_vars

====
